---- MODULE Spec2Model ----
(***************************************************************************)
(* Attendance & leave reconciliation of the Zainn workforce application.   *)
(*                                                                         *)
(* The persisted tables (leave_requests, attendance, notifications,        *)
(* attendance_schedule) live in the store; the admin "Leave Requests"      *)
(* page and the employee dashboard are client sessions that keep a copy of *)
(* what they last fetched and run async handlers whose awaits are the      *)
(* points where other sessions may interleave.                             *)
(*                                                                         *)
(* Instants are seconds since 00:00:00Z of day 0; a date is a day number.   *)
(***************************************************************************)
EXTENDS Integers, Sequences, FiniteSets, TLC

\* ------------------------------------------------------------------ bounds
MaxDate == 1        \* leave dates range over the days 0..MaxDate
MaxClicks == 2      \* approve/decline clicks over all admin sessions
MaxTasks == 2       \* approve/decline handlers in flight at one time
MaxCheckIns == 2    \* check-in clicks of one employee
MaxFetches == 2     \* fetchData calls of one dashboard in flight at one time
MaxPerDay == 8      \* check-ins stored for one day
MaxMarks == 2       \* mark-as-read handlers of one view in flight at one time
MaxCalls == 2       \* invocations of manage-user

\* ------------------------------------------------------------ fixed values
SecondsPerHour == 3600
SecondsPerDay == 86400
NoOne == "none"     \* null user / null request id
NoTime == -1        \* null timestamp
NoNotification == NoTime  \* null for expandedId

Admins == {"a1", "a2"}
Employees == {"u1", "u2"}
RequestIds == {"r1", "r2"}
Dates == 0..MaxDate

\* A browser time zone: local = UTC + before until the instant switch,
\* UTC + after from then on.
UTCZone == [before |-> 0, after |-> 0, switch |-> 0]
\* daylight saving time ends on day 0 at 06:00Z (02:00 local, UTC-4 -> UTC-5)
DstEndZone == [before |-> -4 * SecondsPerHour, after |-> -5 * SecondsPerHour,
               switch |-> 6 * SecondsPerHour]
\* daylight saving time starts on day 0 at 07:00Z (02:00 local, UTC-5 -> UTC-4)
DstStartZone == [before |-> -5 * SecondsPerHour, after |-> -4 * SecondsPerHour,
                 switch |-> 7 * SecondsPerHour]
Zones == {UTCZone, DstEndZone, DstStartZone}

VARIABLES
    leave_requests,   \* store: request id -> row of table leave_requests
    attendance,       \* store: sequence of rows of table attendance
    notifications,    \* store: sequence of rows of table notifications
    zone,             \* time zone of the admins' browsers
    requests,         \* admin session -> the request list it last fetched
    processingId,     \* admin session -> request id being processed
    refreshDue,       \* admin session -> a fetchLeaveRequests is in flight
    toast,            \* admin session -> last toast shown
    tasks,            \* handleApprove / handleDecline invocations in flight
    clicks,           \* approve/decline clicks so far; the n-th click
                      \* happens at instant n
    attendance_schedule, \* store: sequence of rows of attendance_schedule
    clock,            \* wall clock of the store and the dashboards
    todayAttendance,  \* employee dashboard -> today's record as fetched
    todaySchedule,    \* employee dashboard -> today's schedule as fetched
    checkingIn,       \* employee dashboard -> a check-in/out is running
    fetchAtt,         \* employee dashboard -> fetchData calls in flight
                      \* before their attendance query
    fetchSched,       \* ... before their attendance_schedule query
    dashToast,        \* employee dashboard -> last toast shown
    dashTasks,        \* handleCheckIn invocations in flight
    checkIns,         \* employee -> check-in clicks so far
    schedule,         \* schedule page: the rows as fetched and edited
    schedLoading,     \* schedule page: fetchSchedule is in flight
    saving,           \* schedule page: a handleSave is running
    saveTasks,        \* handleSave invocations in flight
    schedToast,       \* schedule page: last toast shown
    profiles,         \* store: sequence of rows of table profiles
    stats,            \* admin dashboard: the figures shown
    aggTasks,         \* fetchDashboardData invocations in flight
    skew,             \* employee -> device clock minus the store's clock
    leaveForm,        \* employee dashboard -> the leave dialog's fields
    isLeaveDialogOpen, \* employee dashboard -> the leave dialog is open
    leaveLoading,     \* employee dashboard -> a handleSubmitLeave is running
    leaveTasks,       \* handleSubmitLeave invocations in flight
    inbox,            \* notification view -> the notifications it lists
    inboxLoading,     \* notification view -> fetchNotifications in flight
    expandedId,       \* notification view -> the notification expanded
    delivered,        \* notification view -> rows of notifications whose
                      \* INSERT event the subscription has passed
    inboxTasks,       \* click / mark-all handlers in flight
    aggSeen,          \* admin dashboard: rows of attendance whose INSERT
                      \* event its subscription has passed
    auth_users,       \* store: ids of the users of auth.users
    user_roles,       \* store: rows of table user_roles
    user_settings,    \* store: user ids with a row in user_settings
    gps_logs,         \* store: sequence of rows of table gps_logs
    task_rows,        \* store: sequence of rows of table tasks
    fnCalls,          \* manage-user: its invocations, running and answered
    selectedEmployee, \* employees page of an admin -> user of the delete dialog
    deleteLoading,    \* employees page -> handlePermanentDelete in flight
    deleteToast       \* employees page -> last toast of handlePermanentDelete

leaveVars == <<leave_requests, notifications, zone, requests,
               processingId, refreshDue, toast, tasks, clicks>>
dashVars == <<attendance_schedule, clock, todayAttendance, todaySchedule,
              checkingIn, fetchAtt, fetchSched, dashToast, dashTasks,
              checkIns>>
schedVars == <<schedule, schedLoading, saving, saveTasks, schedToast>>
\* the state of the pages other than the leave page and the check-in card
aggVars == <<profiles, stats, aggTasks>>
formVars == <<leaveForm, isLeaveDialogOpen, leaveLoading, leaveTasks>>
viewVars == <<inbox, inboxLoading, expandedId, delivered, inboxTasks>>
fnVars == <<auth_users, user_roles, user_settings, gps_logs, task_rows,
            fnCalls, selectedEmployee, deleteLoading, deleteToast>>
restVars == <<viewVars, aggSeen, fnVars>>
pageVars == <<schedVars, aggVars, skew, formVars, restVars>>
vars == <<leaveVars, attendance, dashVars, pageVars>>

\* ------------------------------------------------------- JavaScript Date
\* new Date("YYYY-MM-DD"): a date-only string is midnight UTC of that day
ParseDate(d) == d * SecondsPerDay

Offset(z, u) == IF u < z.switch THEN z.before ELSE z.after

\* LocalTime(t) of ECMAScript
LocalTime(z, u) == u + Offset(z, u)

\* UTC(t) of ECMAScript: a repeated or skipped local time is read with the
\* offset in force before the transition
UTC(z, l) ==
    IF l - z.before < z.switch THEN l - z.before
    ELSE IF l - z.after >= z.switch THEN l - z.after
    ELSE l - z.before

\* d.setDate(d.getDate() + 1): one day later on the local wall clock
SetDatePlusOne(z, u) == UTC(z, LocalTime(z, u) + SecondsPerDay)

\* the day a timestamp falls on for the store (timestamptz, UTC session)
DayOf(u) == u \div SecondsPerDay

\* ------------------------------------------------------- leave reconciler
AuthUser(a) == a

RECURSIVE LeaveLoop(_, _, _, _, _)
LeaveLoop(z, uid, d, endDate, acc) ==
    IF d <= endDate
    THEN LeaveLoop(z, uid, SetDatePlusOne(z, d), endDate,
                   Append(acc, [user_id |-> uid, check_in |-> d,
                                check_out |-> NoTime, status |-> "leave"]))
    ELSE acc

\* the rows handleApprove builds for a request, in the browser's zone
LeaveAttendanceRecords(z, request) ==
    LeaveLoop(z, request.user_id, ParseDate(request.start_date),
              ParseDate(request.end_date), <<>>)

\* as LeaveNotification, with the deep link pointing at the requester
LeaveNotification_LinksUser(kind, request) ==
    [user_id |-> request.user_id,
     title |-> IF kind = "approve" THEN "Leave Request Approved"
               ELSE "Leave Request Declined",
     type |-> IF kind = "approve" THEN "success" ELSE "error",
     is_read |-> FALSE,
     related_type |-> "leave",
     related_id |-> request.user_id]

\* the row handleApprove / handleDecline inserts into notifications;
\* is_read is the column default
LeaveNotification(kind, request) ==
    [user_id |-> request.user_id,
     title |-> IF kind = "approve" THEN "Leave Request Approved"
               ELSE "Leave Request Declined",
     type |-> IF kind = "approve" THEN "success" ELSE "error",
     is_read |-> FALSE,
     related_type |-> "leave",
     related_id |-> request.id]

TaskOf(a, kind, request, pc) ==
    [id |-> clicks + 1, admin |-> a, kind |-> kind, request |-> request,
     now |-> clicks + 1, pc |-> pc]

\* the approve and decline buttons of a request card are rendered in the
\* pending tab only and are disabled while processingId is that request
ButtonsEnabled(a, rid) ==
    /\ rid \in DOMAIN requests[a]
    /\ requests[a][rid].status = "pending"
    /\ processingId[a] # rid

\* click on the approve (kind = "approve") or decline button of a card:
\* the handler runs up to its first await
Click(a, kind, rid) ==
    /\ UNCHANGED <<dashVars, pageVars>>
    /\ AuthUser(a) # NoOne
    /\ ButtonsEnabled(a, rid)
    /\ clicks < MaxClicks
    /\ Cardinality(tasks) < MaxTasks
    /\ processingId' = [processingId EXCEPT ![a] = rid]
    /\ tasks' = tasks \cup {TaskOf(a, kind, requests[a][rid], "update")}
    /\ clicks' = clicks + 1
    /\ UNCHANGED <<leave_requests, attendance, notifications, zone,
                   requests, refreshDue, toast>>

\* catch + finally, or the end of the try block + finally; an error toast is
\* named by its fallback description
Finish(t, msg) ==
    /\ toast' = [toast EXCEPT ![t.admin] = msg]
    /\ processingId' = [processingId EXCEPT ![t.admin] = NoOne]
    /\ tasks' = tasks \ {t}

\* the update of leave_requests ... eq("id", request.id); the table's
\* change feed makes every subscribed session refetch
UpdateStatus(t, status) ==
    /\ leave_requests' =
         [leave_requests EXCEPT ![t.request.id] =
            [@ EXCEPT !.status = status,
                      !.approved_by = AuthUser(t.admin),
                      !.approved_at = t.now]]
    /\ refreshDue' = [a \in Admins |-> TRUE]

\* as ApproveUpdate, with the updateError check left out
ApproveUpdate_NoThrow(t) ==
    /\ UNCHANGED <<dashVars, pageVars>>
    /\ t.kind = "approve" /\ t.pc = "update"
    /\ \/ UNCHANGED <<leave_requests, refreshDue>>
       \/ UpdateStatus(t, "approved")
    /\ tasks' = (tasks \ {t}) \cup
         {[t EXCEPT !.pc =
             IF Len(LeaveAttendanceRecords(zone, t.request)) > 0
             THEN "attendance" ELSE "notify"]}
    /\ UNCHANGED <<toast, processingId>>
    /\ UNCHANGED <<attendance, notifications, zone, requests, clicks>>

\* handleApprove, first await: the status update answers
ApproveUpdate(t) ==
    /\ UNCHANGED <<dashVars, pageVars>>
    /\ t.kind = "approve" /\ t.pc = "update"
    /\ \/ \* updateError: throw
          /\ Finish(t, "Failed to approve leave request")
          /\ UNCHANGED <<leave_requests, refreshDue>>
       \/ /\ UpdateStatus(t, "approved")
          /\ tasks' = (tasks \ {t}) \cup
               {[t EXCEPT !.pc =
                   IF Len(LeaveAttendanceRecords(zone, t.request)) > 0
                   THEN "attendance" ELSE "notify"]}
          /\ UNCHANGED <<toast, processingId>>
    /\ UNCHANGED <<attendance, notifications, zone, requests, clicks>>

\* handleApprove, second await: the bulk insert into attendance answers;
\* its result is not looked at
ApproveAttendance(t) ==
    /\ UNCHANGED <<dashVars, pageVars>>
    /\ t.kind = "approve" /\ t.pc = "attendance"
    /\ \/ /\ attendance' = attendance \o
                 LeaveAttendanceRecords(zone, t.request)
          /\ tasks' = (tasks \ {t}) \cup {[t EXCEPT !.pc = "notify"]}
       \/ /\ attendance' = attendance
          /\ tasks' = (tasks \ {t}) \cup {[t EXCEPT !.pc = "notify"]}
    /\ UNCHANGED <<leave_requests, notifications, zone, requests,
                   processingId, refreshDue, toast, clicks>>

\* as Notify, undoing the approval when the notification is not stored
Notify_RollsBack(t) ==
    /\ UNCHANGED <<dashVars, pageVars>>
    /\ t.pc = "notify"
    /\ \/ /\ notifications' =
               Append(notifications, LeaveNotification(t.kind, t.request))
          /\ UNCHANGED <<leave_requests, attendance>>
       \/ /\ notifications' = notifications
          /\ leave_requests' =
               [leave_requests EXCEPT ![t.request.id] =
                  [@ EXCEPT !.status = "pending", !.approved_by = NoOne,
                            !.approved_at = NoTime]]
          /\ attendance' = SelectSeq(attendance,
                              LAMBDA r : r.user_id # t.request.user_id)
    /\ Finish(t, IF t.kind = "approve" THEN "Leave approved"
                 ELSE "Leave declined")
    /\ refreshDue' = [refreshDue EXCEPT ![t.admin] = TRUE]
    /\ UNCHANGED <<zone, requests, clicks>>

\* handleApprove / handleDecline, last await: the insert into notifications
\* answers (result not looked at), then toast, fetchLeaveRequests(), finally
Notify(t) ==
    /\ UNCHANGED <<dashVars, pageVars>>
    /\ t.pc = "notify"
    /\ \/ notifications' =
            Append(notifications, LeaveNotification(t.kind, t.request))
       \/ notifications' = notifications
    /\ Finish(t, IF t.kind = "approve" THEN "Leave approved"
                 ELSE "Leave declined")
    /\ refreshDue' = [refreshDue EXCEPT ![t.admin] = TRUE]
    /\ UNCHANGED <<leave_requests, attendance, zone, requests, clicks>>

\* as DeclineUpdate, materialising the span as handleApprove does
DeclineUpdate_WritesAttendance(t) ==
    /\ UNCHANGED <<dashVars, pageVars>>
    /\ t.kind = "decline" /\ t.pc = "update"
    /\ \/ /\ Finish(t, "Failed to decline leave request")
          /\ UNCHANGED <<leave_requests, refreshDue, attendance>>
       \/ /\ UpdateStatus(t, "declined")
          /\ attendance' = attendance \o
                 LeaveAttendanceRecords(zone, t.request)
          /\ tasks' = (tasks \ {t}) \cup {[t EXCEPT !.pc = "notify"]}
          /\ UNCHANGED <<toast, processingId>>
    /\ UNCHANGED <<notifications, zone, requests, clicks>>

\* handleDecline, first await: the status update answers
DeclineUpdate(t) ==
    /\ UNCHANGED <<dashVars, pageVars>>
    /\ t.kind = "decline" /\ t.pc = "update"
    /\ \/ /\ Finish(t, "Failed to decline leave request")
          /\ UNCHANGED <<leave_requests, refreshDue>>
       \/ /\ UpdateStatus(t, "declined")
          /\ tasks' = (tasks \ {t}) \cup {[t EXCEPT !.pc = "notify"]}
          /\ UNCHANGED <<toast, processingId>>
    /\ UNCHANGED <<attendance, notifications, zone, requests, clicks>>

\* interface LeaveRequest: the columns of a fetched row the page keeps
ListItem(row) ==
    [id |-> row.id, user_id |-> row.user_id, start_date |-> row.start_date,
     end_date |-> row.end_date, status |-> row.status]

\* fetchLeaveRequests: select * from leave_requests, then setRequests
FetchLeaveRequests(a) ==
    /\ UNCHANGED <<dashVars, pageVars>>
    /\ refreshDue[a]
    /\ refreshDue' = [refreshDue EXCEPT ![a] = FALSE]
    /\ \/ /\ requests' = [requests EXCEPT ![a] =
                           [rid \in DOMAIN leave_requests |->
                              ListItem(leave_requests[rid])]]
          /\ toast' = toast
       \/ /\ requests' = requests
          /\ toast' = [toast EXCEPT ![a] = "Failed to load leave requests"]
    /\ UNCHANGED <<leave_requests, attendance, notifications, zone,
                   processingId, tasks, clicks>>

\* ----------------------------------------------------- schedule and times
\* day 0 of the model is a Monday
EpochWeekday == 1

\* Date.getHours(), getMinutes(), getDay() in the browser's zone
GetHours(z, t) == (LocalTime(z, t) % SecondsPerDay) \div SecondsPerHour
GetMinutes(z, t) == (LocalTime(z, t) % SecondsPerHour) \div 60
GetDay(z, t) == (DayOf(LocalTime(z, t)) + EpochWeekday) % 7

\* the zone of the employees' browsers
DashZone == UTCZone

TimeOfDay(h, m, sec) == [h |-> h, m |-> m, s |-> sec]
At(day, h, m, sec) == day * SecondsPerDay + h * SecondsPerHour + m * 60 + sec

Digits == <<"0", "1", "2", "3", "4", "5", "6", "7", "8", "9">>
IsDigit(c) == \E n \in 1..10 : Digits[n] = c
DigitVal(c) == (CHOOSE n \in 1..10 : Digits[n] = c) - 1
Pad2(n) == <<Digits[(n \div 10) + 1], Digits[(n % 10) + 1]>>

\* a TIME column as the store's API returns it: the text HH:MM:SS, here a
\* sequence of characters
FormatTime(t) == Pad2(t.h) \o <<":">> \o Pad2(t.m) \o <<":">> \o Pad2(t.s)

\* String.prototype.split(sep) for a one-character separator
RECURSIVE SplitLoop(_, _, _, _, _)
SplitLoop(str, sep, i, cur, acc) ==
    IF i > Len(str) THEN Append(acc, cur)
    ELSE IF str[i] = sep THEN SplitLoop(str, sep, i + 1, <<>>, Append(acc, cur))
    ELSE SplitLoop(str, sep, i + 1, Append(cur, str[i]), acc)
Split(str, sep) == SplitLoop(str, sep, 1, <<>>, <<>>)

\* the number NaN
NaN == -1

\* parseInt(str): the decimal value of the leading digits, NaN without any
\* (an absent array element reads as the text "undefined")
RECURSIVE ParseIntLoop(_, _, _)
ParseIntLoop(str, i, acc) ==
    IF i > Len(str) \/ ~IsDigit(str[i])
    THEN (IF i = 1 THEN NaN ELSE acc)
    ELSE ParseIntLoop(str, i + 1, acc * 10 + DigitVal(str[i]))
ParseInt(str) == ParseIntLoop(str, 1, 0)
Part(parts, i) ==
    IF i <= Len(parts) THEN parts[i]
    ELSE <<"u", "n", "d", "e", "f", "i", "n", "e", "d">>

\* a * 60 + b and a > b on numbers that may be NaN
TimesSixtyPlus(a, b) == IF a = NaN \/ b = NaN THEN NaN ELSE a * 60 + b

\* as GreaterThan, NaN compared as the number it is written as here
GreaterThan_Numeric(a, b) == a > b

\* a > b is false when either is NaN
GreaterThan(a, b) == a # NaN /\ b # NaN /\ a > b

\* null for todaySchedule / todayAttendance
NoRow == [id |-> NoOne]

\* as determineStatus, with the boundary counted as late
determineStatus_Inclusive(z, checkInTime, sched) ==
    IF sched = NoRow THEN "present"
    ELSE LET checkInEndParts == Split(sched.check_in_end, ":")
             checkInEndMinutes ==
                 TimesSixtyPlus(ParseInt(Part(checkInEndParts, 1)),
                                ParseInt(Part(checkInEndParts, 2)))
             currentMinutes ==
                 GetHours(z, checkInTime) * 60 + GetMinutes(z, checkInTime)
         IN IF ~GreaterThan(checkInEndMinutes, currentMinutes)
            THEN "late" ELSE "present"

\* as determineStatus, without a default for a missing schedule
determineStatus_NoDefault(z, checkInTime, sched) ==
    LET checkInEndParts ==
            IF sched = NoRow THEN <<>> ELSE Split(sched.check_in_end, ":")
        checkInEndMinutes ==
            IF sched = NoRow THEN 0
            ELSE TimesSixtyPlus(ParseInt(Part(checkInEndParts, 1)),
                                ParseInt(Part(checkInEndParts, 2)))
        currentMinutes ==
            GetHours(z, checkInTime) * 60 + GetMinutes(z, checkInTime)
    IN IF GreaterThan(currentMinutes, checkInEndMinutes)
       THEN "late" ELSE "present"

determineStatus(z, checkInTime, sched) ==
    IF sched = NoRow THEN "present"
    ELSE LET checkInEndParts == Split(sched.check_in_end, ":")
             checkInEndMinutes ==
                 TimesSixtyPlus(ParseInt(Part(checkInEndParts, 1)),
                                ParseInt(Part(checkInEndParts, 2)))
             currentMinutes ==
                 GetHours(z, checkInTime) * 60 + GetMinutes(z, checkInTime)
         IN IF GreaterThan(currentMinutes, checkInEndMinutes)
            THEN "late" ELSE "present"

\* the rows the migration seeds: Monday to Friday are working days
SeedRow(dow) ==
    [id |-> dow, day_of_week |-> dow,
     check_in_start |-> TimeOfDay(8, 0, 0),
     check_in_end |-> TimeOfDay(9, 30, 0),
     check_out_start |-> TimeOfDay(17, 0, 0),
     check_out_end |-> TimeOfDay(18, 30, 0),
     is_working_day |-> dow \in 1..5]
SeedSchedule == [i \in 1..7 |-> SeedRow(i - 1)]

\* a schedule row as a client receives it: the times as text
ScheduleDay(row) ==
    [day_of_week |-> row.day_of_week,
     check_in_start |-> FormatTime(row.check_in_start),
     check_in_end |-> FormatTime(row.check_in_end),
     check_out_start |-> FormatTime(row.check_out_start),
     check_out_end |-> FormatTime(row.check_out_end),
     is_working_day |-> row.is_working_day]

\* .single(): the one element of a result, null for none or several
Single(rows) == IF Len(rows) = 1 THEN rows[1] ELSE NoRow

\* no dashboard is open
DashIdle ==
    /\ attendance_schedule = SeedSchedule
    /\ clock = 0
    /\ todayAttendance = [e \in Employees |-> NoRow]
    /\ todaySchedule = [e \in Employees |-> NoRow]
    /\ checkingIn = [e \in Employees |-> FALSE]
    /\ fetchAtt = [e \in Employees |-> 0]
    /\ fetchSched = [e \in Employees |-> 0]
    /\ dashToast = [e \in Employees |-> [title |-> "none"]]
    /\ dashTasks = {}
    /\ checkIns = [e \in Employees |-> 0]

\* the schedule page is not open
SchedIdle ==
    /\ schedule = <<>>
    /\ schedLoading = FALSE
    /\ saving = FALSE
    /\ saveTasks = {}
    /\ schedToast = "none"

\* useState<DashboardStats> of the admin dashboard
NoStats ==
    [totalEmployees |-> 0, presentToday |-> 0, lateToday |-> 0,
     absentToday |-> 0, onLeaveToday |-> 0, attendanceRate |-> 0]

\* a row of profiles
Profile(n, active) == [id |-> n, is_active |-> active]

\* the admin dashboard is not open
AggIdle ==
    /\ profiles = [n \in 1..Cardinality(Admins \cup Employees) |->
                     Profile(n, TRUE)]
    /\ stats = NoStats
    /\ aggTasks = {}

\* the devices' clocks agree with the store's
NoSkew == skew = [e \in Employees |-> 0]

\* the empty text of a date field
NoDate == -1

\* the leave dialogs are closed, their fields empty
FormIdle ==
    /\ leaveForm = [e \in Employees |->
                      [start_date |-> NoDate, end_date |-> NoDate]]
    /\ isLeaveDialogOpen = [e \in Employees |-> FALSE]
    /\ leaveLoading = [e \in Employees |-> FALSE]
    /\ leaveTasks = {}

\* no notification view is open
ViewIdle ==
    /\ inbox = [e \in Employees |-> <<>>]
    /\ inboxLoading = [e \in Employees |-> FALSE]
    /\ expandedId = [e \in Employees |-> NoNotification]
    /\ delivered = [e \in Employees |-> 0]
    /\ inboxTasks = {}

\* the rows every user has: an auth user, one role, the settings
RoleOf(u) == [user_id |-> u, role |-> IF u \in Admins THEN "admin"
                                      ELSE "employee"]

\* manage-user has not been called; no gps log, no task stored
FnIdle ==
    /\ auth_users = Admins \cup Employees
    /\ user_roles = {RoleOf(u) : u \in Admins \cup Employees}
    /\ user_settings = Admins \cup Employees
    /\ gps_logs = <<>>
    /\ task_rows = <<>>
    /\ fnCalls = {}
    /\ selectedEmployee = [a \in Admins |-> NoOne]
    /\ deleteLoading = [a \in Admins |-> FALSE]
    /\ deleteToast = [a \in Admins |-> "none"]

RestIdle == ViewIdle /\ aggSeen = 0 /\ FnIdle

PagesIdle == SchedIdle /\ AggIdle /\ NoSkew /\ FormIdle /\ RestIdle

\* rows as handleSubmitLeave stores them: pending, not yet reviewed; neither
\* the form nor the table orders start_date and end_date
PendingRow(rid, uid, s, e) ==
    [id |-> rid, user_id |-> uid, start_date |-> s, end_date |-> e,
     status |-> "pending", approved_by |-> NoOne, approved_at |-> NoTime]

Init ==
    /\ \E s1 \in Dates, e1 \in Dates :
         leave_requests = [rid \in {"r1"} |-> PendingRow(rid, "u1", s1, e1)]
    /\ attendance = <<>>
    /\ notifications = <<>>
    /\ zone \in Zones
    /\ requests = [a \in Admins |-> <<>>]
    /\ processingId = [a \in Admins |-> NoOne]
    /\ refreshDue = [a \in Admins |-> TRUE]
    /\ toast = [a \in Admins |-> "none"]
    /\ tasks = {}
    /\ clicks = 0
    /\ DashIdle
    /\ PagesIdle

Next ==
    \/ \E a \in Admins, rid \in RequestIds : Click(a, "approve", rid)
    \/ \E a \in Admins, rid \in RequestIds : Click(a, "decline", rid)
    \/ \E t \in tasks : ApproveUpdate(t)
    \/ \E t \in tasks : ApproveAttendance(t)
    \/ \E t \in tasks : DeclineUpdate(t)
    \/ \E t \in tasks : Notify(t)
    \/ \E a \in Admins : FetchLeaveRequests(a)

Spec == Init /\ [][Next]_vars

\* two pending requests, of two employees, on the leave page of one admin
InitTwo ==
    /\ leave_requests = [rid \in RequestIds |->
                           PendingRow(rid, IF rid = "r1" THEN "u1" ELSE "u2",
                                      0, 0)]
    /\ attendance = <<>>
    /\ notifications = <<>>
    /\ zone = UTCZone
    /\ requests = [a \in Admins |-> <<>>]
    /\ processingId = [a \in Admins |-> NoOne]
    /\ refreshDue = [a \in Admins |-> a = "a1"]
    /\ toast = [a \in Admins |-> "none"]
    /\ tasks = {}
    /\ clicks = 0
    /\ DashIdle
    /\ PagesIdle

\* one admin session acting on them
NextTwo ==
    \/ \E rid \in RequestIds : Click("a1", "approve", rid)
    \/ \E rid \in RequestIds : Click("a1", "decline", rid)
    \/ \E t \in tasks : ApproveUpdate(t)
    \/ \E t \in tasks : ApproveAttendance(t)
    \/ \E t \in tasks : DeclineUpdate(t)
    \/ \E t \in tasks : Notify(t)
    \/ FetchLeaveRequests("a1")

SpecTwo == InitTwo /\ [][NextTwo]_vars

\* ------------------------------------------------------ employee dashboard
\* the instants the clock takes: around the seeded check_in_end of day 0
Instants ==
    {At(0, 8, 59, 0), At(0, 9, 29, 59), At(0, 9, 30, 0), At(0, 9, 30, 59),
     At(0, 9, 31, 0), At(0, 10, 0, 0), At(0, 10, 29, 0)}

\* values an admin may have saved for a schedule row
CheckInStarts == {TimeOfDay(8, 0, 0), TimeOfDay(9, 45, 0)}
CheckInEnds == {TimeOfDay(9, 30, 0), TimeOfDay(10, 0, 59)}

\* the employees with a dashboard open
DashUsers == {"u1"}

\* new Date() on the device of an employee
DeviceNow(e) == clock + skew[e]

\* as TodayRecords, without the filter on user_id
TodayRecords_AllUsers(e) ==
    LET today == DayOf(DeviceNow(e))
        F[i \in 0..Len(attendance)] ==
            IF i = 0 THEN <<>>
            ELSE IF DayOf(attendance[i].check_in) = today
                 THEN Append(F[i - 1],
                             [id |-> i, check_in |-> attendance[i].check_in,
                              check_out |-> attendance[i].check_out,
                              status |-> attendance[i].status])
                 ELSE F[i - 1]
    IN F[Len(attendance)]

\* today's rows of an employee, as the attendance query of fetchData
\* selects them (AttendanceRecord: id, check_in, check_out, status)
TodayRecords(e) ==
    LET today == DayOf(DeviceNow(e))
        F[i \in 0..Len(attendance)] ==
            IF i = 0 THEN <<>>
            ELSE IF /\ attendance[i].user_id = e
                    /\ DayOf(attendance[i].check_in) = today
                 THEN Append(F[i - 1],
                             [id |-> i, check_in |-> attendance[i].check_in,
                              check_out |-> attendance[i].check_out,
                              status |-> attendance[i].status])
                 ELSE F[i - 1]
    IN F[Len(attendance)]

\* the rows of today's weekday, as the schedule query of fetchData selects
\* them
TodayScheduleRows(e) ==
    LET dayOfWeek == GetDay(DashZone, DeviceNow(e))
        F[i \in 0..Len(attendance_schedule)] ==
            IF i = 0 THEN <<>>
            ELSE IF attendance_schedule[i].day_of_week = dayOfWeek
                 THEN Append(F[i - 1], ScheduleDay(attendance_schedule[i]))
                 ELSE F[i - 1]
    IN F[Len(attendance_schedule)]

\* fetchData, the attendance query answers: setTodayAttendance (null when
\* the query fails)
FetchAttendance(e) ==
    /\ fetchAtt[e] > 0
    /\ fetchSched[e] < MaxFetches
    /\ fetchAtt' = [fetchAtt EXCEPT ![e] = @ - 1]
    /\ fetchSched' = [fetchSched EXCEPT ![e] = @ + 1]
    /\ \/ todayAttendance' =
            [todayAttendance EXCEPT ![e] = Single(TodayRecords(e))]
       \/ todayAttendance' = [todayAttendance EXCEPT ![e] = NoRow]
    /\ UNCHANGED <<attendance_schedule, clock, todaySchedule, checkingIn,
                   dashToast, dashTasks, checkIns>>
    /\ UNCHANGED <<leaveVars, attendance, pageVars>>

\* fetchData, the schedule query answers: setTodaySchedule (null when the
\* query fails)
FetchSchedule(e) ==
    /\ fetchSched[e] > 0
    /\ fetchSched' = [fetchSched EXCEPT ![e] = @ - 1]
    /\ \/ todaySchedule' =
            [todaySchedule EXCEPT ![e] = Single(TodayScheduleRows(e))]
       \/ todaySchedule' = [todaySchedule EXCEPT ![e] = NoRow]
    /\ UNCHANGED <<attendance_schedule, clock, todayAttendance, checkingIn,
                   fetchAtt, dashToast, dashTasks, checkIns>>
    /\ UNCHANGED <<leaveVars, attendance, pageVars>>

\* the check in/out card offers Check In: not on a day known to be off,
\* and no record of today known
CheckInShown(e) ==
    /\ ~(todaySchedule[e] # NoRow /\ ~todaySchedule[e].is_working_day)
    /\ todayAttendance[e] = NoRow

\* as Classified, a late check-in marked absent
Classified_LateAsAbsent(t) ==
    [t EXCEPT !.now = DeviceNow(t.user),
              !.status = IF determineStatus(DashZone, DeviceNow(t.user),
                                            t.sched) = "late"
                         THEN "absent" ELSE "present",
              !.pc = "insert"]

\* const now = new Date(); const status = determineStatus(now), with the
\* todaySchedule of the render the handler was created in
Classified(t) ==
    [t EXCEPT !.now = DeviceNow(t.user),
              !.status = determineStatus(DashZone, DeviceNow(t.user),
                                         t.sched),
              !.pc = "insert"]

\* click on Check In: setCheckingIn(true), then the handler awaits the
\* position (granted or refused) and the gps log
ClickCheckIn(e) ==
    /\ CheckInShown(e)
    /\ ~checkingIn[e]
    /\ checkIns[e] < MaxCheckIns
    /\ checkIns' = [checkIns EXCEPT ![e] = @ + 1]
    /\ checkingIn' = [checkingIn EXCEPT ![e] = TRUE]
    /\ dashTasks' = dashTasks \cup
          {[id |-> checkIns[e] + 1, user |-> e, kind |-> "checkin",
            pc |-> "geo", sched |-> todaySchedule[e],
            now |-> NoTime, status |-> "none"]}
    /\ UNCHANGED <<attendance_schedule, clock, todayAttendance,
                   todaySchedule, fetchAtt, fetchSched, dashToast>>
    /\ UNCHANGED <<leaveVars, attendance, pageVars>>

\* handleCheckIn after the geolocation awaits
CheckInClassify(t) ==
    /\ t.kind = "checkin" /\ t.pc = "geo"
    /\ dashTasks' = (dashTasks \ {t}) \cup {Classified(t)}
    /\ UNCHANGED <<attendance_schedule, clock, todayAttendance,
                   todaySchedule, checkingIn, fetchAtt, fetchSched,
                   dashToast, checkIns>>
    /\ UNCHANGED <<leaveVars, attendance, pageVars>>

\* handleCheckIn, the attendance insert answers: check_in is the column
\* default now(); then toast, fetchData(), finally setCheckingIn(false)
CheckInInsert(t) ==
    /\ t.kind = "checkin" /\ t.pc = "insert"
    /\ \/ /\ attendance' = attendance
          /\ dashToast' = [dashToast EXCEPT ![t.user] =
                             [title |-> "Failed to check in"]]
          /\ fetchAtt' = fetchAtt
       \/ /\ fetchAtt[t.user] < MaxFetches
          /\ attendance' = Append(attendance,
                [user_id |-> t.user, check_in |-> clock,
                 check_out |-> NoTime, status |-> t.status])
          /\ dashToast' = [dashToast EXCEPT ![t.user] =
                [title |-> IF t.status = "late" THEN "Checked in (Late)"
                           ELSE "Checked in!",
                 at |-> t.now]]
          /\ fetchAtt' = [fetchAtt EXCEPT ![t.user] = @ + 1]
    /\ checkingIn' = [checkingIn EXCEPT ![t.user] = FALSE]
    /\ dashTasks' = dashTasks \ {t}
    /\ UNCHANGED <<attendance_schedule, clock, todayAttendance,
                   todaySchedule, fetchSched, checkIns>>
    /\ UNCHANGED <<leaveVars, pageVars>>

\* the card offers Check Out: a record of today is known and shows no
\* check_out
CheckOutShown(e) ==
    /\ ~(todaySchedule[e] # NoRow /\ ~todaySchedule[e].is_working_day)
    /\ todayAttendance[e] # NoRow
    /\ todayAttendance[e].check_out = NoTime

\* click on Check Out: setCheckingIn(true) and the update is sent, with
\* check_out the device's new Date()
ClickCheckOut(e) ==
    /\ CheckOutShown(e)
    /\ ~checkingIn[e]
    /\ checkingIn' = [checkingIn EXCEPT ![e] = TRUE]
    /\ dashTasks' = dashTasks \cup
          {[id |-> 0, user |-> e, kind |-> "checkout", pc |-> "update",
            sched |-> NoRow, now |-> DeviceNow(e), status |-> "none",
            record |-> todayAttendance[e].id]}
    /\ UNCHANGED <<attendance_schedule, clock, todayAttendance,
                   todaySchedule, fetchAtt, fetchSched, dashToast, checkIns>>
    /\ UNCHANGED <<leaveVars, attendance, pageVars>>

\* as SetCheckOut, on every record of the record's user
SetCheckOut_ByUser(rows, id, at) ==
    [i \in DOMAIN rows |->
        IF rows[i].user_id = rows[id].user_id
        THEN [rows[i] EXCEPT !.check_out = at] ELSE rows[i]]

\* update({ check_out }).eq("id", id)
SetCheckOut(rows, id, at) ==
    [i \in DOMAIN rows |->
        IF i = id THEN [rows[i] EXCEPT !.check_out = at] ELSE rows[i]]

\* handleCheckOut, the update answers: an error, or no error with the row
\* written, or no error with no row written (the update reaches only
\* rows the table's row security lets the user update); then toast,
\* fetchData(), finally setCheckingIn(false)
CheckOutUpdate(t) ==
    /\ t.kind = "checkout" /\ t.pc = "update"
    /\ \/ /\ attendance' = attendance
          /\ dashToast' = [dashToast EXCEPT ![t.user] =
                             [title |-> "Failed to check out"]]
          /\ fetchAtt' = fetchAtt
       \/ /\ fetchAtt[t.user] < MaxFetches
          /\ \/ attendance' = SetCheckOut(attendance, t.record, t.now)
             \/ attendance' = attendance
          /\ dashToast' = [dashToast EXCEPT ![t.user] =
                [title |-> "Checked out!", at |-> DeviceNow(t.user)]]
          /\ fetchAtt' = [fetchAtt EXCEPT ![t.user] = @ + 1]
    /\ checkingIn' = [checkingIn EXCEPT ![t.user] = FALSE]
    /\ dashTasks' = dashTasks \ {t}
    /\ UNCHANGED <<attendance_schedule, clock, todayAttendance,
                   todaySchedule, fetchSched, checkIns>>
    /\ UNCHANGED <<leaveVars, pageVars>>

\* the % of JavaScript: the remainder takes the sign of the dividend
JsRem(a, b) == IF a >= 0 THEN a % b ELSE -((-a) % b)

\* calculateDuration of the attendance list and of the history: null
\* without a check_out, else the h and m of the text shown
calculateDuration(checkIn, checkOut) ==
    LET diff == (checkOut - checkIn) * 1000
    IN IF checkOut = NoTime THEN [hours |-> NoTime, minutes |-> NoTime]
       ELSE [hours |-> diff \div (1000 * 60 * 60),
             minutes |-> JsRem(diff, 1000 * 60 * 60) \div (1000 * 60)]

\* time passes
Tick ==
    /\ \E i \in Instants : i > clock /\ clock' = i
    /\ UNCHANGED <<attendance_schedule, todayAttendance, todaySchedule,
                   checkingIn, fetchAtt, fetchSched, dashToast, dashTasks,
                   checkIns>>
    /\ UNCHANGED <<leaveVars, attendance, pageVars>>

\* no admin page is open, no leave request stored
LeaveIdle ==
    /\ leave_requests = <<>>
    /\ notifications = <<>>
    /\ zone = UTCZone
    /\ requests = [a \in Admins |-> <<>>]
    /\ processingId = [a \in Admins |-> NoOne]
    /\ refreshDue = [a \in Admins |-> FALSE]
    /\ toast = [a \in Admins |-> "none"]
    /\ tasks = {}
    /\ clicks = 0

\* the schedule with today's row as an admin may have saved it
SavedSchedule(dow, start, end, working) ==
    [i \in 1..7 |->
        IF i - 1 = dow
        THEN [SeedRow(dow) EXCEPT !.check_in_start = start,
                                  !.check_in_end = end,
                                  !.is_working_day = working]
        ELSE SeedRow(i - 1)]

\* the dashboards mount (useEffect: fetchData) at some instant of day 0
InitDash ==
    /\ LeaveIdle
    /\ PagesIdle
    /\ attendance = <<>>
    /\ clock \in Instants
    /\ \E start \in CheckInStarts, end \in CheckInEnds, working \in BOOLEAN :
          attendance_schedule =
              SavedSchedule(GetDay(DashZone, 0), start, end, working)
    /\ todayAttendance = [e \in Employees |-> NoRow]
    /\ todaySchedule = [e \in Employees |-> NoRow]
    /\ checkingIn = [e \in Employees |-> FALSE]
    /\ fetchAtt = [e \in Employees |-> IF e \in DashUsers THEN 1 ELSE 0]
    /\ fetchSched = [e \in Employees |-> 0]
    /\ dashToast = [e \in Employees |-> [title |-> "none"]]
    /\ dashTasks = {}
    /\ checkIns = [e \in Employees |-> 0]

NextDash ==
    \/ \E e \in DashUsers : FetchAttendance(e)
    \/ \E e \in DashUsers : FetchSchedule(e)
    \/ \E e \in DashUsers : ClickCheckIn(e)
    \/ \E t \in dashTasks : CheckInClassify(t)
    \/ \E t \in dashTasks : CheckInInsert(t)
    \/ Tick

SpecDash == InitDash /\ [][NextDash]_vars

\* a device clock is right or two minutes slow
Skews == {0, -120}

\* check-in and check-out: the dashboard mounts at 09:31 of day 0 with the
\* seeded schedule stored
InitOut ==
    /\ LeaveIdle
    /\ SchedIdle
    /\ AggIdle
    /\ FormIdle
    /\ RestIdle
    /\ \E d \in Skews :
          skew = [e \in Employees |-> IF e \in DashUsers THEN d ELSE 0]
    /\ attendance = <<>>
    /\ clock = At(0, 9, 31, 0)
    /\ attendance_schedule = SeedSchedule
    /\ todayAttendance = [e \in Employees |-> NoRow]
    /\ todaySchedule = [e \in Employees |-> NoRow]
    /\ checkingIn = [e \in Employees |-> FALSE]
    /\ fetchAtt = [e \in Employees |-> IF e \in DashUsers THEN 1 ELSE 0]
    /\ fetchSched = [e \in Employees |-> 0]
    /\ dashToast = [e \in Employees |-> [title |-> "none"]]
    /\ dashTasks = {}
    /\ checkIns = [e \in Employees |-> 0]

NextOut ==
    \/ \E e \in DashUsers : FetchAttendance(e)
    \/ \E e \in DashUsers : FetchSchedule(e)
    \/ \E e \in DashUsers : ClickCheckIn(e)
    \/ \E t \in dashTasks : CheckInClassify(t)
    \/ \E t \in dashTasks : CheckInInsert(t)
    \/ \E e \in DashUsers : ClickCheckOut(e)
    \/ \E t \in dashTasks : CheckOutUpdate(t)
    \/ Tick

SpecOut == InitOut /\ [][NextOut]_vars

\* determineStatus on its own: any schedule row or none as todaySchedule,
\* any instant, a check-in about to classify
InitClassify ==
    /\ LeaveIdle
    /\ PagesIdle
    /\ attendance = <<>>
    /\ clock \in Instants
    /\ attendance_schedule = SeedSchedule
    /\ todayAttendance = [e \in Employees |-> NoRow]
    /\ \E start \in CheckInStarts, end \in CheckInEnds, working \in BOOLEAN,
          none \in BOOLEAN :
          todaySchedule = [e \in Employees |->
              IF none \/ e \notin DashUsers THEN NoRow
              ELSE ScheduleDay(
                     SavedSchedule(1, start, end, working)[2])]
    /\ checkingIn = [e \in Employees |-> e \in DashUsers]
    /\ fetchAtt = [e \in Employees |-> 0]
    /\ fetchSched = [e \in Employees |-> 0]
    /\ dashToast = [e \in Employees |-> [title |-> "none"]]
    /\ dashTasks = {[id |-> 1, user |-> e, kind |-> "checkin", pc |-> "geo",
                     sched |-> todaySchedule[e], now |-> NoTime,
                     status |-> "none"] : e \in DashUsers}
    /\ checkIns = [e \in Employees |-> IF e \in DashUsers THEN 1 ELSE 0]

NextClassify ==
    \/ \E t \in dashTasks : CheckInClassify(t)
    \/ Tick

SpecClassify == InitClassify /\ [][NextClassify]_vars

\* texts a check_in_end may hold: a time, and texts that do not read as
\* hours and minutes
CheckInEndTexts ==
    {<<"0", "9", ":", "3", "0", ":", "0", "0">>,
     <<>>,
     <<"0", "9">>,
     <<"0", "9", ":">>,
     <<":", "3", "0">>,
     <<"a", "m", ":", "3", "0">>,
     <<"0", "9", ":", "x", "x">>,
     <<"n", "u", "l", "l">>}

\* determineStatus on a todaySchedule with any of these texts, at any
\* instant, a check-in about to classify
InitParse ==
    /\ LeaveIdle
    /\ PagesIdle
    /\ attendance = <<>>
    /\ clock \in Instants
    /\ attendance_schedule = SeedSchedule
    /\ todayAttendance = [e \in Employees |-> NoRow]
    /\ \E txt \in CheckInEndTexts, working \in BOOLEAN :
          todaySchedule = [e \in Employees |->
              IF e \notin DashUsers THEN NoRow
              ELSE [ScheduleDay(SeedRow(1)) EXCEPT
                       !.check_in_end = txt, !.is_working_day = working]]
    /\ checkingIn = [e \in Employees |-> e \in DashUsers]
    /\ fetchAtt = [e \in Employees |-> 0]
    /\ fetchSched = [e \in Employees |-> 0]
    /\ dashToast = [e \in Employees |-> [title |-> "none"]]
    /\ dashTasks = {[id |-> 1, user |-> e, kind |-> "checkin", pc |-> "geo",
                     sched |-> todaySchedule[e], now |-> NoTime,
                     status |-> "none"] : e \in DashUsers}
    /\ checkIns = [e \in Employees |-> IF e \in DashUsers THEN 1 ELSE 0]

NextParse ==
    \/ \E t \in dashTasks : CheckInClassify(t)
    \/ \E t \in dashTasks : CheckInInsert(t)
    \/ Tick

SpecParse == InitParse /\ [][NextParse]_vars

\* ---------------------------------------------------------- schedule page
\* a TIME column reading a text: HH:MM or HH:MM:SS, two digits each, within
\* the day; anything else is refused by the store
InvalidTime == TimeOfDay(-1, -1, -1)
TwoDigits(str) == Len(str) = 2 /\ IsDigit(str[1]) /\ IsDigit(str[2])
ParseTime(str) ==
    LET parts == Split(str, ":")
        secs == IF Len(parts) = 3 THEN ParseInt(parts[3]) ELSE 0
    IN IF /\ Len(parts) \in {2, 3}
          /\ \A i \in DOMAIN parts : TwoDigits(parts[i])
          /\ ParseInt(parts[1]) <= 23
          /\ ParseInt(parts[2]) <= 59
          /\ secs <= 59
       THEN TimeOfDay(ParseInt(parts[1]), ParseInt(parts[2]), secs)
       ELSE InvalidTime

\* interface ScheduleDay of the schedule page: a fetched row, times as text
ScheduleRow(row) ==
    [id |-> row.id,
     day_of_week |-> row.day_of_week,
     check_in_start |-> FormatTime(row.check_in_start),
     check_in_end |-> FormatTime(row.check_in_end),
     check_out_start |-> FormatTime(row.check_out_start),
     check_out_end |-> FormatTime(row.check_out_end),
     is_working_day |-> row.is_working_day]

\* .order("day_of_week", { ascending: true })
RECURSIVE OrderByDay(_, _)
OrderByDay(rows, d) ==
    IF d > 6 THEN <<>>
    ELSE SelectSeq(rows, LAMBDA r : r.day_of_week = d)
            \o OrderByDay(rows, d + 1)

\* useEffect of the schedule page: fetchSchedule()
OpenSchedulePage ==
    /\ schedule = <<>> /\ ~schedLoading /\ ~saving
    /\ schedLoading' = TRUE
    /\ UNCHANGED <<schedule, saving, saveTasks, schedToast>>
    /\ UNCHANGED <<leaveVars, attendance, dashVars, aggVars, skew, formVars,
                   restVars>>

\* fetchSchedule, the query answers
fetchSchedule ==
    /\ schedLoading
    /\ schedLoading' = FALSE
    /\ \/ /\ schedule' = [i \in 1..Len(attendance_schedule) |->
                            ScheduleRow(OrderByDay(attendance_schedule, 0)[i])]
          /\ schedToast' = schedToast
       \/ /\ schedule' = schedule
          /\ schedToast' = "Failed to load attendance schedule"
    /\ UNCHANGED <<saving, saveTasks>>
    /\ UNCHANGED <<leaveVars, attendance, dashVars, aggVars, skew, formVars,
                   restVars>>

\* what the admin sets in a card: the day, the field, the value (a time
\* input yields HH:MM, or the empty text when cleared)
EditDays == {1}
EditTimes == {<<"1", "0", ":", "0", "0">>, <<>>}

\* handleScheduleChange(dayIndex, field, value); the time inputs of a day
\* are disabled while the day is not a working day
handleScheduleChange(dayIndex, field, value) ==
    /\ \E i \in DOMAIN schedule :
          /\ schedule[i].day_of_week = dayIndex
          /\ field # "is_working_day" => schedule[i].is_working_day
          /\ schedule[i][field] # value
    /\ schedule' = [i \in DOMAIN schedule |->
                      IF schedule[i].day_of_week = dayIndex
                      THEN [schedule[i] EXCEPT ![field] = value]
                      ELSE schedule[i]]
    /\ UNCHANGED <<schedLoading, saving, saveTasks, schedToast>>
    /\ UNCHANGED <<leaveVars, attendance, dashVars, aggVars, skew, formVars,
                   restVars>>

\* the texts of a card are all readable as times
ValidDay(day) ==
    /\ ParseTime(day.check_in_start) # InvalidTime
    /\ ParseTime(day.check_in_end) # InvalidTime
    /\ ParseTime(day.check_out_start) # InvalidTime
    /\ ParseTime(day.check_out_end) # InvalidTime

\* as UpdateById, storing the day as a new row
UpdateById_Insert(rows, day) ==
    Append(rows,
           [id |-> Len(rows), day_of_week |-> day.day_of_week,
            check_in_start |-> ParseTime(day.check_in_start),
            check_in_end |-> ParseTime(day.check_in_end),
            check_out_start |-> ParseTime(day.check_out_start),
            check_out_end |-> ParseTime(day.check_out_end),
            is_working_day |-> day.is_working_day])

\* update({check_in_start, ..., is_working_day}).eq("id", day.id)
UpdateById(rows, day) ==
    [i \in DOMAIN rows |->
        IF rows[i].id = day.id
        THEN [rows[i] EXCEPT
                 !.check_in_start = ParseTime(day.check_in_start),
                 !.check_in_end = ParseTime(day.check_in_end),
                 !.check_out_start = ParseTime(day.check_out_start),
                 !.check_out_end = ParseTime(day.check_out_end),
                 !.is_working_day = day.is_working_day]
        ELSE rows[i]]

\* click on Save Schedule: setSaving(true), the loop over the schedule of
\* this render starts; with nothing to loop over the handler ends at once
ClickSave ==
    /\ ~saving
    /\ IF schedule = <<>>
       THEN /\ schedToast' = "Schedule saved"
            /\ UNCHANGED <<saving, saveTasks>>
       ELSE /\ saving' = TRUE
            /\ saveTasks' = {[rows |-> schedule, i |-> 1]}
            /\ schedToast' = schedToast
    /\ UNCHANGED <<schedule, schedLoading>>
    /\ UNCHANGED <<leaveVars, attendance, dashVars, aggVars, skew, formVars,
                   restVars>>

\* as SaveDay, classifying anew the check-ins stored for the saved weekday
SaveDay_Reclassifies(t) ==
    /\ t \in saveTasks
    /\ ValidDay(t.rows[t.i])
    /\ attendance_schedule' = UpdateById(attendance_schedule, t.rows[t.i])
    /\ attendance' =
          [i \in DOMAIN attendance |->
              IF /\ attendance[i].status \in {"present", "late"}
                 /\ GetDay(DashZone, attendance[i].check_in)
                       = t.rows[t.i].day_of_week
              THEN [attendance[i] EXCEPT !.status =
                       determineStatus(DashZone, attendance[i].check_in,
                                       t.rows[t.i])]
              ELSE attendance[i]]
    /\ IF t.i = Len(t.rows)
       THEN /\ schedToast' = "Schedule saved"
            /\ saving' = FALSE
            /\ saveTasks' = {}
       ELSE /\ saveTasks' = {[t EXCEPT !.i = @ + 1]}
            /\ UNCHANGED <<schedToast, saving>>
    /\ UNCHANGED <<schedule, schedLoading>>
    /\ UNCHANGED <<leaveVars, aggVars, skew, formVars, restVars>>
    /\ UNCHANGED <<clock, todayAttendance, todaySchedule, checkingIn,
                   fetchAtt, fetchSched, dashToast, dashTasks, checkIns>>

\* handleSave, the update of one day answers: an error ends the handler
\* with the rows before it saved; after the last day the success toast
SaveDay(t) ==
    /\ t \in saveTasks
    /\ \/ /\ schedToast' = "Failed to save schedule"
          /\ saving' = FALSE
          /\ saveTasks' = {}
          /\ UNCHANGED <<attendance_schedule>>
       \/ /\ ValidDay(t.rows[t.i])
          /\ attendance_schedule' =
                UpdateById(attendance_schedule, t.rows[t.i])
          /\ IF t.i = Len(t.rows)
             THEN /\ schedToast' = "Schedule saved"
                  /\ saving' = FALSE
                  /\ saveTasks' = {}
             ELSE /\ saveTasks' = {[t EXCEPT !.i = @ + 1]}
                  /\ UNCHANGED <<schedToast, saving>>
    /\ UNCHANGED <<schedule, schedLoading>>
    /\ UNCHANGED <<leaveVars, attendance, aggVars, skew, formVars, restVars>>
    /\ UNCHANGED <<clock, todayAttendance, todaySchedule, checkingIn,
                   fetchAtt, fetchSched, dashToast, dashTasks, checkIns>>

\* the schedule page and one dashboard, opened on day 0 with the seeded
\* schedule stored
SchedInstants == {At(0, 9, 31, 0), At(0, 10, 0, 0)}
InitSched ==
    /\ LeaveIdle
    /\ PagesIdle
    /\ attendance = <<>>
    /\ clock \in SchedInstants
    /\ attendance_schedule = SeedSchedule
    /\ todayAttendance = [e \in Employees |-> NoRow]
    /\ todaySchedule = [e \in Employees |-> NoRow]
    /\ checkingIn = [e \in Employees |-> FALSE]
    /\ fetchAtt = [e \in Employees |-> IF e \in DashUsers THEN 1 ELSE 0]
    /\ fetchSched = [e \in Employees |-> 0]
    /\ dashToast = [e \in Employees |-> [title |-> "none"]]
    /\ dashTasks = {}
    /\ checkIns = [e \in Employees |-> 0]

NextSched ==
    \/ OpenSchedulePage
    \/ fetchSchedule
    \/ \E d \in EditDays, v \in EditTimes :
          handleScheduleChange(d, "check_in_end", v)
    \/ \E d \in EditDays, v \in BOOLEAN :
          handleScheduleChange(d, "is_working_day", v)
    \/ ClickSave
    \/ \E t \in saveTasks : SaveDay(t)
    \/ \E e \in DashUsers : FetchAttendance(e)
    \/ \E e \in DashUsers : FetchSchedule(e)
    \/ Tick

SpecSched == InitSched /\ [][NextSched]_vars

\* the admin changes check-in times while an employee checks in, a minute
\* after the seeded check_in_end
InitStale == InitSched /\ clock = At(0, 9, 31, 0)

NextStale ==
    \/ OpenSchedulePage
    \/ fetchSchedule
    \/ \E d \in EditDays, v \in EditTimes :
          handleScheduleChange(d, "check_in_end", v)
    \/ ClickSave
    \/ \E t \in saveTasks : SaveDay(t)
    \/ \E e \in DashUsers : FetchAttendance(e)
    \/ \E e \in DashUsers : FetchSchedule(e)
    \/ \E e \in DashUsers : ClickCheckIn(e)
    \/ \E t \in dashTasks : CheckInClassify(t)
    \/ \E t \in dashTasks : CheckInInsert(t)

SpecStale == InitStale /\ [][NextStale]_vars

\* --------------------------------------------------------- admin dashboard
\* IEEE 754 double precision, for the positive values the attendance rate
\* goes through: m is the 53-bit significand, most significant bit first,
\* and the value is m / 2^f
\* the binary digits of n, most significant first; none for 0
BitsOfInt(n) ==
    IF n = 0 THEN <<>>
    ELSE LET len == CHOOSE l \in 1..30 : 2^(l - 1) <= n /\ n < 2^l
         IN [i \in 1..len |-> (n \div 2^(len - i)) % 2]
Bits16(n) == [i \in 1..16 |-> (n \div 2^(16 - i)) % 2]
RECURSIVE IntOfBits(_)
IntOfBits(b) ==
    IF b = <<>> THEN 0
    ELSE 2 * IntOfBits(SubSeq(b, 1, Len(b) - 1)) + b[Len(b)]
\* bits + 1
Inc(bits) ==
    IF \A i \in DOMAIN bits : bits[i] = 1
    THEN <<1>> \o [i \in DOMAIN bits |-> 0]
    ELSE LET j == CHOOSE k \in DOMAIN bits :
                     bits[k] = 0 /\ \A l \in (k + 1)..Len(bits) : bits[l] = 1
         IN [i \in DOMAIN bits |->
                IF i < j THEN bits[i] ELSE IF i = j THEN 1 ELSE 0]
\* round to nearest, ties to even, to 53 significant bits: bits has f
\* fractional digits, sticky tells of non-zero digits after them
RoundBits(bits, f, sticky) ==
    LET keep == SubSeq(bits, 1, 53)
        rest == sticky \/ \E i \in 55..Len(bits) : bits[i] = 1
        up == bits[54] = 1 /\ (rest \/ keep[53] = 1)
        m1 == IF up THEN Inc(keep) ELSE keep
        dropped == Len(bits) - 53
    IN IF Len(m1) = 54
       THEN [m |-> SubSeq(m1, 1, 53), f |-> f - dropped - 1]
       ELSE [m |-> m1, f |-> f - dropped]
RECURSIVE Pow2Mod(_, _)
Pow2Mod(k, d) ==
    IF k = 0 THEN 1 % d
    ELSE IF k % 2 = 0
         THEN LET h == Pow2Mod(k \div 2, d) IN (h * h) % d
         ELSE (2 * Pow2Mod(k - 1, d)) % d
Zero == [m |-> <<>>, f |-> 0]
\* a / b for integers a >= 0, b > 0
Divide(a, b) ==
    LET Rem(k) == ((a % b) * Pow2Mod(k, b)) % b
        FracBit(k) == IF 2 * Rem(k - 1) >= b THEN 1 ELSE 0
        ibits == BitsOfInt(a \div b)
        lead == IF ibits # <<>> THEN 0
                ELSE (CHOOSE k \in 1..40 :
                        FracBit(k) = 1 /\ \A j \in 1..(k - 1) : FracBit(j) = 0)
                     - 1
        f == lead + 54 - Len(ibits)
    IN IF a = 0 THEN Zero
       ELSE RoundBits(ibits \o [i \in 1..(54 - Len(ibits)) |->
                                   FracBit(lead + i)],
                      f, Rem(f) # 0)
\* x * 100, the 53 bits of x taken as 5 + 16 + 16 + 16
Times100(x) ==
    LET p0 == IntOfBits(SubSeq(x.m, 38, 53)) * 100
        p1 == IntOfBits(SubSeq(x.m, 22, 37)) * 100 + p0 \div 65536
        p2 == IntOfBits(SubSeq(x.m, 6, 21)) * 100 + p1 \div 65536
        p3 == IntOfBits(SubSeq(x.m, 1, 5)) * 100 + p2 \div 65536
    IN IF x = Zero THEN Zero
       ELSE RoundBits(BitsOfInt(p3) \o Bits16(p2 % 65536)
                         \o Bits16(p1 % 65536) \o Bits16(p0 % 65536),
                      x.f, FALSE)
\* Math.round: the nearest integer, halves upwards
MathRound(x) ==
    IF x = Zero THEN 0
    ELSE LET n == Len(x.m) - x.f
         IN (IF n <= 0 THEN 0 ELSE IntOfBits(SubSeq(x.m, 1, n)))
            + (IF n >= 0 /\ n < Len(x.m) THEN x.m[n + 1] ELSE 0)

\* startOfDay, endOfDay, startOfWeek and endOfWeek ({ weekStartsOn: 1 }) of
\* date-fns, in the browser's zone; instants are whole seconds
StartOfDay(z, t) == UTC(z, DayOf(LocalTime(z, t)) * SecondsPerDay)
EndOfDay(z, t) ==
    UTC(z, DayOf(LocalTime(z, t)) * SecondsPerDay + SecondsPerDay - 1)
WeekDiff(z, t) == (IF GetDay(z, t) < 1 THEN 7 ELSE 0) + GetDay(z, t) - 1
StartOfWeek(z, t) ==
    UTC(z, (DayOf(LocalTime(z, t)) - WeekDiff(z, t)) * SecondsPerDay)
EndOfWeek(z, t) ==
    UTC(z, (DayOf(LocalTime(z, t)) - WeekDiff(z, t) + 6) * SecondsPerDay
              + SecondsPerDay - 1)

\* null for a count
Null == -1

\* select("status").gte("check_in", from).lte("check_in", to)
StatusBetween(from, to) ==
    LET rows == SelectSeq(attendance,
                    LAMBDA r : r.check_in >= from /\ r.check_in <= to)
    IN [i \in DOMAIN rows |-> [status |-> rows[i].status]]

\* data?.filter((a) => a.status === ...).length || 0
CountOf(result, statuses) ==
    IF result.error THEN 0
    ELSE Cardinality({i \in DOMAIN result.data :
                         result.data[i].status \in statuses})

\* employeeCount || 0
OrZero(n) == IF n = Null THEN 0 ELSE n

\* as absentToday, without the floor at zero
absentToday_Signed(employeeCount, totalAttendanceToday) ==
    OrZero(employeeCount) - totalAttendanceToday

absentToday(employeeCount, totalAttendanceToday) ==
    IF OrZero(employeeCount) - totalAttendanceToday > 0
    THEN OrZero(employeeCount) - totalAttendanceToday ELSE 0

attendanceRate(employeeCount, weekAttendance) ==
    LET weekPresent == CountOf(weekAttendance, {"present", "late"})
        weekTotal == OrZero(employeeCount) * 5
    IN IF weekTotal > 0
       THEN MathRound(Times100(Divide(weekPresent, weekTotal))) ELSE 0

\* fetchDashboardData starts: const today = new Date() and the bounds
NewAggTask ==
    [pc |-> "count", today |-> clock, employeeCount |-> Null,
     todayAttendance |-> [error |-> TRUE, data |-> <<>>],
     weekAttendance |-> [error |-> TRUE, data |-> <<>>]]

\* fetchDashboardData, the count of active profiles answers
AggCount(t) ==
    /\ t.pc = "count"
    /\ \E n \in {Null, Len(SelectSeq(profiles, LAMBDA r : r.is_active))} :
          aggTasks' = (aggTasks \ {t}) \cup
              {[t EXCEPT !.pc = "today", !.employeeCount = n]}
    /\ UNCHANGED <<profiles, stats>>
    /\ UNCHANGED <<leaveVars, attendance, dashVars, schedVars, skew, formVars,
                   restVars>>

\* fetchDashboardData, the query for today's attendance answers
AggToday(t) ==
    /\ t.pc = "today"
    /\ \E res \in {[error |-> TRUE, data |-> <<>>],
                   [error |-> FALSE,
                    data |-> StatusBetween(StartOfDay(zone, t.today),
                                           EndOfDay(zone, t.today))]} :
          aggTasks' = (aggTasks \ {t}) \cup
              {[t EXCEPT !.pc = "week", !.todayAttendance = res]}
    /\ UNCHANGED <<profiles, stats>>
    /\ UNCHANGED <<leaveVars, attendance, dashVars, schedVars, skew, formVars,
                   restVars>>

\* fetchDashboardData, the query for the week's attendance answers
AggWeek(t) ==
    /\ t.pc = "week"
    /\ \E res \in {[error |-> TRUE, data |-> <<>>],
                   [error |-> FALSE,
                    data |-> StatusBetween(StartOfWeek(zone, t.today),
                                           EndOfWeek(zone, t.today))]} :
          aggTasks' = (aggTasks \ {t}) \cup
              {[t EXCEPT !.pc = "recent", !.weekAttendance = res]}
    /\ UNCHANGED <<profiles, stats>>
    /\ UNCHANGED <<leaveVars, attendance, dashVars, schedVars, skew, formVars,
                   restVars>>

\* fetchDashboardData, the recent tasks and recent attendance have
\* answered (they do not enter the figures): setStats
AggSetStats(t) ==
    /\ t.pc = "recent"
    /\ stats' =
         [totalEmployees |-> OrZero(t.employeeCount),
          presentToday |-> CountOf(t.todayAttendance, {"present"}),
          lateToday |-> CountOf(t.todayAttendance, {"late"}),
          absentToday |->
              absentToday(t.employeeCount,
                          IF t.todayAttendance.error THEN 0
                          ELSE Len(t.todayAttendance.data)),
          onLeaveToday |-> CountOf(t.todayAttendance, {"leave"}),
          attendanceRate |-> attendanceRate(t.employeeCount,
                                            t.weekAttendance)]
    /\ aggTasks' = aggTasks \ {t}
    /\ UNCHANGED profiles
    /\ UNCHANGED <<leaveVars, attendance, dashVars, schedVars, skew, formVars,
                   restVars>>

\* the employees whose records the store may hold
UserNames == <<"u1", "u2", "u3", "u4", "u5", "u6", "u7", "u8", "u9",
               "u10", "u11", "u12">>

\* n records of one day, of the users from first on
Records(n, day, h, status, first) ==
    [i \in 1..n |->
        [user_id |-> UserNames[first + i - 1],
         check_in |-> At(day, h, 0, 0), check_out |-> NoTime,
         status |-> status]]

\* the admin dashboard opens on the Wednesday (day 2) of a week with up to
\* MaxPerDay check-ins on a day
InitAgg ==
    /\ LeaveIdle
    /\ SchedIdle
    /\ NoSkew
    /\ FormIdle
    /\ RestIdle
    /\ attendance_schedule = SeedSchedule
    /\ clock = At(2, 12, 0, 0)
    /\ todayAttendance = [e \in Employees |-> NoRow]
    /\ todaySchedule = [e \in Employees |-> NoRow]
    /\ checkingIn = [e \in Employees |-> FALSE]
    /\ fetchAtt = [e \in Employees |-> 0]
    /\ fetchSched = [e \in Employees |-> 0]
    /\ dashToast = [e \in Employees |-> [title |-> "none"]]
    /\ dashTasks = {}
    /\ checkIns = [e \in Employees |-> 0]
    /\ \E active \in 0..MaxPerDay, inactive \in 0..1 :
          profiles = [n \in 1..(active + inactive) |->
                         Profile(n, n <= active)]
    /\ \E sun \in 0..1, mon \in {0, 2, MaxPerDay}, tue \in {0, 2, MaxPerDay},
          present \in 0..(MaxPerDay - 1), late \in 0..1, leave \in 0..1,
          next \in 0..1 :
          attendance =
              Records(sun, -1, 9, "present", 1)
              \o Records(mon, 0, 9, "present", 1)
              \o Records(tue, 1, 9, "present", 1)
              \o Records(present, 2, 9, "present", 1)
              \o Records(late, 2, 10, "late", present + 1)
              \o Records(leave, 2, 0, "leave", present + late + 1)
              \o Records(next, 7, 0, "leave", 1)
    /\ stats = NoStats
    /\ aggTasks = {NewAggTask}

NextAgg ==
    \/ \E t \in aggTasks : AggCount(t)
    \/ \E t \in aggTasks : AggToday(t)
    \/ \E t \in aggTasks : AggWeek(t)
    \/ \E t \in aggTasks : AggSetStats(t)

SpecAgg == InitAgg /\ [][NextAgg]_vars

\* the subscription of the dashboard passes the next INSERT event on
\* attendance: fetchDashboardData() starts once more
AggReceive ==
    /\ aggSeen < Len(attendance)
    /\ aggSeen' = aggSeen + 1
    /\ aggTasks' = aggTasks \cup {NewAggTask}
    /\ UNCHANGED <<profiles, stats>>
    /\ UNCHANGED <<leaveVars, attendance, dashVars, schedVars, skew, formVars,
                   viewVars, fnVars>>

\* every query of the fetchDashboardData calls in flight has answered
\* with its rows
Answered ==
    \A t \in aggTasks :
        /\ t.pc \in {"today", "week", "recent"} => t.employeeCount # Null
        /\ t.pc \in {"week", "recent"} => ~t.todayAttendance.error
        /\ t.pc = "recent" => ~t.weekAttendance.error

\* the admin dashboard and the dashboard of u1 mount at 09:31 of day 0,
\* four active employees, no attendance stored yet
InitFeed ==
    /\ LeaveIdle
    /\ SchedIdle /\ NoSkew /\ FormIdle /\ ViewIdle /\ FnIdle
    /\ attendance = <<>>
    /\ clock = At(0, 9, 31, 0)
    /\ attendance_schedule = SeedSchedule
    /\ todayAttendance = [e \in Employees |-> NoRow]
    /\ todaySchedule = [e \in Employees |-> NoRow]
    /\ checkingIn = [e \in Employees |-> FALSE]
    /\ fetchAtt = [e \in Employees |-> IF e \in DashUsers THEN 1 ELSE 0]
    /\ fetchSched = [e \in Employees |-> 0]
    /\ dashToast = [e \in Employees |-> [title |-> "none"]]
    /\ dashTasks = {}
    /\ checkIns = [e \in Employees |-> 0]
    /\ profiles = [n \in 1..Cardinality(Admins \cup Employees) |->
                     Profile(n, TRUE)]
    /\ stats = NoStats
    /\ aggTasks = {NewAggTask}
    /\ aggSeen = 0

\* one check-in while the dashboard refreshes, every query answering
NextFeed ==
    \/ \E e \in DashUsers : FetchAttendance(e)
    \/ \E e \in DashUsers : FetchSchedule(e)
    \/ \E e \in DashUsers : ClickCheckIn(e) /\ checkIns[e] = 0
    \/ \E t \in dashTasks : CheckInClassify(t)
    \/ \E t \in dashTasks : CheckInInsert(t)
    \/ AggReceive
    \/ \E t \in aggTasks : AggCount(t) /\ Answered'
    \/ \E t \in aggTasks : AggToday(t) /\ Answered'
    \/ \E t \in aggTasks : AggWeek(t) /\ Answered'
    \/ \E t \in aggTasks : AggSetStats(t)

SpecFeed == InitFeed /\ [][NextFeed]_vars

\* ------------------------------------------------------------ leave dialog
\* click on Request Leave, offered next to Check In
OpenLeaveDialog(e) ==
    /\ CheckInShown(e)
    /\ ~isLeaveDialogOpen[e]
    /\ isLeaveDialogOpen' = [isLeaveDialogOpen EXCEPT ![e] = TRUE]
    /\ UNCHANGED <<leaveForm, leaveLoading, leaveTasks>>
    /\ UNCHANGED <<leaveVars, attendance, dashVars, schedVars, aggVars, skew,
                   restVars>>

\* Cancel, or the dialog dismissed: the fields keep their values
CloseLeaveDialog(e) ==
    /\ isLeaveDialogOpen[e]
    /\ isLeaveDialogOpen' = [isLeaveDialogOpen EXCEPT ![e] = FALSE]
    /\ UNCHANGED <<leaveForm, leaveLoading, leaveTasks>>
    /\ UNCHANGED <<leaveVars, attendance, dashVars, schedVars, aggVars, skew,
                   restVars>>

\* new Date().toISOString().split("T")[0] on the device
Today(e) == DayOf(DeviceNow(e))

\* the start date is picked: a day from min = today on, or the field cleared
SetStartDate(e, d) ==
    /\ isLeaveDialogOpen[e]
    /\ d = NoDate \/ d >= Today(e)
    /\ d # leaveForm[e].start_date
    /\ leaveForm' = [leaveForm EXCEPT ![e].start_date = d]
    /\ UNCHANGED <<isLeaveDialogOpen, leaveLoading, leaveTasks>>
    /\ UNCHANGED <<leaveVars, attendance, dashVars, schedVars, aggVars, skew,
                   restVars>>

\* the end date is picked: a day from min = leaveForm.start_date || today
\* on, or the field cleared
SetEndDate(e, d) ==
    /\ isLeaveDialogOpen[e]
    /\ d = NoDate
       \/ d >= (IF leaveForm[e].start_date # NoDate
                THEN leaveForm[e].start_date ELSE Today(e))
    /\ d # leaveForm[e].end_date
    /\ leaveForm' = [leaveForm EXCEPT ![e].end_date = d]
    /\ UNCHANGED <<isLeaveDialogOpen, leaveLoading, leaveTasks>>
    /\ UNCHANGED <<leaveVars, attendance, dashVars, schedVars, aggVars, skew,
                   restVars>>

\* click on Submit: an empty date ends the handler with its toast, else
\* setLeaveLoading(true) and the insert is sent
ClickSubmitLeave(e) ==
    /\ isLeaveDialogOpen[e]
    /\ ~leaveLoading[e]
    /\ IF leaveForm[e].start_date = NoDate \/ leaveForm[e].end_date = NoDate
       THEN /\ dashToast' = [dashToast EXCEPT ![e] =
                   [title |-> "Please fill in all required fields"]]
            /\ UNCHANGED <<leaveLoading, leaveTasks>>
       ELSE /\ leaveLoading' = [leaveLoading EXCEPT ![e] = TRUE]
            /\ leaveTasks' = leaveTasks \cup
                  {[user |-> e, pc |-> "insert", id |-> NoOne,
                    start_date |-> leaveForm[e].start_date,
                    end_date |-> leaveForm[e].end_date]}
            /\ dashToast' = dashToast
    /\ UNCHANGED <<leaveForm, isLeaveDialogOpen>>
    /\ UNCHANGED <<leaveVars, attendance, schedVars, aggVars, skew, restVars>>
    /\ UNCHANGED <<attendance_schedule, clock, todayAttendance,
                   todaySchedule, checkingIn, fetchAtt, fetchSched,
                   dashTasks, checkIns>>

\* handleSubmitLeave, the insert into leave_requests answers: an error
\* ends the handler, else the row is stored under a new id
SubmitLeaveInsert(t) ==
    /\ t.pc = "insert"
    /\ \/ /\ dashToast' = [dashToast EXCEPT ![t.user] =
                             [title |-> "Failed to submit leave request"]]
          /\ leaveLoading' = [leaveLoading EXCEPT ![t.user] = FALSE]
          /\ leaveTasks' = leaveTasks \ {t}
          /\ UNCHANGED leave_requests
       \/ \E rid \in RequestIds \ DOMAIN leave_requests :
             /\ leave_requests' =
                   [r \in DOMAIN leave_requests \cup {rid} |->
                       IF r = rid
                       THEN PendingRow(rid, t.user, t.start_date, t.end_date)
                       ELSE leave_requests[r]]
             /\ leaveTasks' = (leaveTasks \ {t}) \cup
                   {[t EXCEPT !.pc = "notify", !.id = rid]}
             /\ UNCHANGED <<dashToast, leaveLoading>>
    /\ UNCHANGED <<leaveForm, isLeaveDialogOpen>>
    /\ UNCHANGED <<notifications, zone, requests, processingId, refreshDue,
                   toast, tasks, clicks>>
    /\ UNCHANGED <<attendance, schedVars, aggVars, skew, restVars>>
    /\ UNCHANGED <<attendance_schedule, clock, todayAttendance,
                   todaySchedule, checkingIn, fetchAtt, fetchSched,
                   dashTasks, checkIns>>

\* the admins, as the query on user_roles lists them
AdminRoles == <<"a1", "a2">>

\* the rows handleSubmitLeave inserts into notifications
AdminNotifications(t) ==
    [i \in DOMAIN AdminRoles |->
        [user_id |-> AdminRoles[i], title |-> "New Leave Request",
         type |-> "warning", is_read |-> FALSE, related_type |-> "leave",
         related_id |-> t.id]]

\* handleSubmitLeave, the admins are looked up and notified (no result is
\* looked at); then toast, the dialog closes, the fields are emptied
SubmitLeaveNotify(t) ==
    /\ t.pc = "notify"
    /\ \/ notifications' = notifications \o AdminNotifications(t)
       \/ notifications' = notifications
    /\ dashToast' = [dashToast EXCEPT ![t.user] =
                       [title |-> "Leave request submitted"]]
    /\ isLeaveDialogOpen' = [isLeaveDialogOpen EXCEPT ![t.user] = FALSE]
    /\ leaveForm' = [leaveForm EXCEPT ![t.user] =
                       [start_date |-> NoDate, end_date |-> NoDate]]
    /\ leaveLoading' = [leaveLoading EXCEPT ![t.user] = FALSE]
    /\ leaveTasks' = leaveTasks \ {t}
    /\ UNCHANGED <<leave_requests, zone, requests, processingId, refreshDue,
                   toast, tasks, clicks>>
    /\ UNCHANGED <<attendance, schedVars, aggVars, skew, restVars>>
    /\ UNCHANGED <<attendance_schedule, clock, todayAttendance,
                   todaySchedule, checkingIn, fetchAtt, fetchSched,
                   dashTasks, checkIns>>

\* a dashboard on day 0, nothing stored yet
InitForm ==
    /\ LeaveIdle
    /\ attendance = <<>>
    /\ DashIdle
    /\ PagesIdle

NextForm ==
    \/ \E e \in DashUsers : OpenLeaveDialog(e)
    \/ \E e \in DashUsers : CloseLeaveDialog(e)
    \/ \E e \in DashUsers, d \in Dates \cup {NoDate} : SetStartDate(e, d)
    \/ \E e \in DashUsers, d \in Dates \cup {NoDate} : SetEndDate(e, d)
    \/ \E e \in DashUsers : ClickSubmitLeave(e)
    \/ \E t \in leaveTasks : SubmitLeaveInsert(t)
    \/ \E t \in leaveTasks : SubmitLeaveNotify(t)

SpecForm == InitForm /\ [][NextForm]_vars

\* ------------------------------------------------- a day with a leave
\* employee u1 has asked for day 0 off; admin a1 has the leave page open,
\* u1's dashboard mounts at 09:31 of that day
InitLeaveDay ==
    /\ leave_requests = [rid \in {"r1"} |-> PendingRow(rid, "u1", 0, 0)]
    /\ attendance = <<>>
    /\ notifications = <<>>
    /\ zone = UTCZone
    /\ requests = [a \in Admins |-> <<>>]
    /\ processingId = [a \in Admins |-> NoOne]
    /\ refreshDue = [a \in Admins |-> a = "a1"]
    /\ toast = [a \in Admins |-> "none"]
    /\ tasks = {}
    /\ clicks = 0
    /\ PagesIdle
    /\ clock = At(0, 9, 31, 0)
    /\ attendance_schedule = SeedSchedule
    /\ todayAttendance = [e \in Employees |-> NoRow]
    /\ todaySchedule = [e \in Employees |-> NoRow]
    /\ checkingIn = [e \in Employees |-> FALSE]
    /\ fetchAtt = [e \in Employees |-> IF e \in DashUsers THEN 1 ELSE 0]
    /\ fetchSched = [e \in Employees |-> 0]
    /\ dashToast = [e \in Employees |-> [title |-> "none"]]
    /\ dashTasks = {}
    /\ checkIns = [e \in Employees |-> 0]

\* the admin approves while the employee checks in
NextLeaveDay ==
    \/ \E rid \in RequestIds : Click("a1", "approve", rid)
    \/ \E t \in tasks : ApproveUpdate(t)
    \/ \E t \in tasks : ApproveAttendance(t)
    \/ \E t \in tasks : Notify(t)
    \/ FetchLeaveRequests("a1")
    \/ \E e \in DashUsers : FetchAttendance(e)
    \/ \E e \in DashUsers : FetchSchedule(e)
    \/ \E e \in DashUsers : ClickCheckIn(e)
    \/ \E t \in dashTasks : CheckInClassify(t)
    \/ \E t \in dashTasks : CheckInInsert(t)

SpecLeaveDay == InitLeaveDay /\ [][NextLeaveDay]_vars

\* ------------------------------------------------------ two dashboards
\* both employees have their dashboard open at 09:31 of day 0, a minute
\* after the seeded check_in_end
InitPair ==
    /\ LeaveIdle
    /\ PagesIdle
    /\ attendance = <<>>
    /\ clock = At(0, 9, 31, 0)
    /\ attendance_schedule = SeedSchedule
    /\ todayAttendance = [e \in Employees |-> NoRow]
    /\ todaySchedule = [e \in Employees |-> NoRow]
    /\ checkingIn = [e \in Employees |-> FALSE]
    /\ fetchAtt = [e \in Employees |-> 1]
    /\ fetchSched = [e \in Employees |-> 0]
    /\ dashToast = [e \in Employees |-> [title |-> "none"]]
    /\ dashTasks = {}
    /\ checkIns = [e \in Employees |-> 0]

\* u1 clicks Check In up to MaxCheckIns times, u2 once
NextPair ==
    \/ \E e \in Employees : FetchAttendance(e)
    \/ \E e \in Employees : FetchSchedule(e)
    \/ \E e \in Employees :
          ClickCheckIn(e) /\ (e \in DashUsers \/ checkIns[e] = 0)
    \/ \E t \in dashTasks : CheckInClassify(t)
    \/ \E t \in dashTasks : CheckInInsert(t)

SpecPair == InitPair /\ [][NextPair]_vars

\* ------------------------------------------------------ notification view
\* interface Notification: a row of notifications as the view lists it
Listed(i) ==
    [id |-> i,
     user_id |-> notifications[i].user_id,
     title |-> notifications[i].title,
     type |-> notifications[i].type,
     is_read |-> notifications[i].is_read,
     related_type |-> notifications[i].related_type,
     related_id |-> notifications[i].related_id]

\* select("*").eq("user_id", user.id).order("created_at", descending)
RECURSIVE NewestFirst(_, _)
NewestFirst(e, i) ==
    IF i = 0 THEN <<>>
    ELSE (IF notifications[i].user_id = e THEN <<Listed(i)>> ELSE <<>>)
            \o NewestFirst(e, i - 1)

\* fetchNotifications, the query answers: setNotifications(data || [])
fetchNotifications(e) ==
    /\ inboxLoading[e]
    /\ inboxLoading' = [inboxLoading EXCEPT ![e] = FALSE]
    /\ \/ inbox' = [inbox EXCEPT ![e] = NewestFirst(e, Len(notifications))]
       \/ inbox' = [inbox EXCEPT ![e] = <<>>]
    /\ UNCHANGED <<expandedId, delivered, inboxTasks>>
    /\ UNCHANGED <<leaveVars, attendance, dashVars, schedVars, aggVars, skew,
                   formVars, aggSeen, fnVars>>

\* the subscription passes the next INSERT event on notifications: a row
\* of this user is put in front of the list as it was inserted, unread
ReceiveInsert(e) ==
    /\ delivered[e] < Len(notifications)
    /\ delivered' = [delivered EXCEPT ![e] = @ + 1]
    /\ inbox' = [inbox EXCEPT ![e] =
          IF notifications[delivered[e] + 1].user_id = e
          THEN <<[Listed(delivered[e] + 1) EXCEPT !.is_read = FALSE]>> \o @
          ELSE @]
    /\ UNCHANGED <<inboxLoading, expandedId, inboxTasks>>
    /\ UNCHANGED <<leaveVars, attendance, dashVars, schedVars, aggVars, skew,
                   formVars, aggSeen, fnVars>>

\* setExpandedId(expandedId === notification.id ? null : notification.id)
Toggle(expanded, id) == IF expanded = id THEN NoNotification ELSE id

\* click on the k-th notification of the list: a read one is expanded or
\* folded at once, an unread one after markAsRead
handleNotificationClick(e, k) ==
    /\ ~inboxLoading[e]
    /\ k \in DOMAIN inbox[e]
    /\ IF inbox[e][k].is_read
       THEN /\ expandedId' = [expandedId EXCEPT ![e] =
                                 Toggle(@, inbox[e][k].id)]
            /\ inboxTasks' = inboxTasks
       ELSE /\ Cardinality({t \in inboxTasks : t.user = e}) < MaxMarks
            /\ inboxTasks' = inboxTasks \cup
                  {[user |-> e, kind |-> "click", ids |-> <<inbox[e][k].id>>,
                    i |-> 1, expanded |-> expandedId[e]]}
            /\ expandedId' = expandedId
    /\ UNCHANGED <<inbox, inboxLoading, delivered>>
    /\ UNCHANGED <<leaveVars, attendance, dashVars, schedVars, aggVars, skew,
                   formVars, aggSeen, fnVars>>

\* as SetRead, without the filter on id
SetRead_AllRows(rows, id) ==
    [i \in DOMAIN rows |-> [rows[i] EXCEPT !.is_read = TRUE]]

\* update({ is_read: true }).eq("id", id)
SetRead(rows, id) ==
    [i \in DOMAIN rows |->
        IF i = id THEN [rows[i] EXCEPT !.is_read = TRUE] ELSE rows[i]]

\* prev.map((n) => n.id === notificationId ? { ...n, is_read: true } : n)
MapRead(list, id) ==
    [k \in DOMAIN list |->
        IF list[k].id = id THEN [list[k] EXCEPT !.is_read = TRUE]
        ELSE list[k]]

\* markAsRead, the update answers (its result is not looked at: the row
\* is written or not); the list is mapped, then the click's toggle
markAsRead(t) ==
    /\ t.kind = "click"
    /\ \/ notifications' = SetRead(notifications, t.ids[1])
       \/ notifications' = notifications
    /\ inbox' = [inbox EXCEPT ![t.user] = MapRead(@, t.ids[1])]
    /\ expandedId' = [expandedId EXCEPT ![t.user] =
                         Toggle(t.expanded, t.ids[1])]
    /\ inboxTasks' = inboxTasks \ {t}
    /\ UNCHANGED <<inboxLoading, delivered>>
    /\ UNCHANGED <<leave_requests, zone, requests, processingId, refreshDue,
                   toast, tasks, clicks>>
    /\ UNCHANGED <<attendance, dashVars, schedVars, aggVars, skew, formVars,
                   aggSeen, fnVars>>

\* notifications.filter((n) => !n.is_read).map((n) => n.id)
UnreadIds(list) ==
    LET unread == SelectSeq(list, LAMBDA n : ~n.is_read)
    IN [k \in DOMAIN unread |-> unread[k].id]

\* click on Mark all as read, shown while the list holds an unread entry
ClickMarkAll(e) ==
    /\ UnreadIds(inbox[e]) # <<>>
    /\ Cardinality({t \in inboxTasks : t.user = e}) < MaxMarks
    /\ inboxTasks' = inboxTasks \cup
          {[user |-> e, kind |-> "all", ids |-> UnreadIds(inbox[e]),
            i |-> 1, expanded |-> NoNotification]}
    /\ UNCHANGED <<inbox, inboxLoading, expandedId, delivered>>
    /\ UNCHANGED <<leaveVars, attendance, dashVars, schedVars, aggVars, skew,
                   formVars, aggSeen, fnVars>>

\* Mark all as read, the update of one id answers (its result is not
\* looked at); after the last one every entry of the list is set read
MarkAllStep(t) ==
    /\ t.kind = "all"
    /\ \/ notifications' = SetRead(notifications, t.ids[t.i])
       \/ notifications' = notifications
    /\ IF t.i = Len(t.ids)
       THEN /\ inbox' = [inbox EXCEPT ![t.user] =
                  [k \in DOMAIN @ |-> [@[k] EXCEPT !.is_read = TRUE]]]
            /\ inboxTasks' = inboxTasks \ {t}
       ELSE /\ inbox' = inbox
            /\ inboxTasks' = (inboxTasks \ {t}) \cup {[t EXCEPT !.i = @ + 1]}
    /\ UNCHANGED <<inboxLoading, expandedId, delivered>>
    /\ UNCHANGED <<leave_requests, zone, requests, processingId, refreshDue,
                   toast, tasks, clicks>>
    /\ UNCHANGED <<attendance, dashVars, schedVars, aggVars, skew, formVars,
                   aggSeen, fnVars>>

\* u1 opens the notification view: one notification read earlier,
\* one unread, one of u2; on the leave page of a1 the approval of u1's
\* request r1 is at its last step, the notification
ApprovedRow(rid, uid, s, e, a, at) ==
    [PendingRow(rid, uid, s, e) EXCEPT
        !.status = "approved", !.approved_by = a, !.approved_at = at]

InitInbox ==
    /\ leave_requests = [rid \in {"r1"} |->
                           ApprovedRow(rid, "u1", 0, 0, "a1", 1)]
    /\ attendance = LeaveAttendanceRecords(UTCZone, leave_requests["r1"])
    /\ notifications =
          <<[LeaveNotification("decline", PendingRow("r2", "u1", 1, 1))
                EXCEPT !.is_read = TRUE],
            LeaveNotification("approve", PendingRow("r2", "u2", 0, 0)),
            LeaveNotification("approve", PendingRow("r2", "u1", 0, 1))>>
    /\ zone = UTCZone
    /\ requests = [a \in Admins |->
                     IF a = "a1"
                     THEN [rid \in {"r1"} |->
                             ListItem(PendingRow(rid, "u1", 0, 0))]
                     ELSE <<>>]
    /\ processingId = [a \in Admins |-> IF a = "a1" THEN "r1" ELSE NoOne]
    /\ refreshDue = [a \in Admins |-> a = "a1"]
    /\ toast = [a \in Admins |-> "none"]
    /\ tasks = {[id |-> 1, admin |-> "a1", kind |-> "approve",
                 request |-> requests["a1"]["r1"], now |-> 1,
                 pc |-> "notify"]}
    /\ clicks = 1
    /\ DashIdle
    /\ SchedIdle /\ AggIdle /\ NoSkew /\ FormIdle
    /\ aggSeen = 0 /\ FnIdle
    /\ inbox = [e \in Employees |-> <<>>]
    /\ inboxLoading = [e \in Employees |-> e \in DashUsers]
    /\ expandedId = [e \in Employees |-> NoNotification]
    /\ delivered = [e \in Employees |-> Len(notifications)]
    /\ inboxTasks = {}

NextInbox ==
    \/ \E t \in tasks : Notify(t)
    \/ FetchLeaveRequests("a1")
    \/ \E e \in DashUsers : fetchNotifications(e)
    \/ \E e \in DashUsers : ReceiveInsert(e)
    \/ \E e \in DashUsers :
          \E k \in DOMAIN inbox[e] : handleNotificationClick(e, k)
    \/ \E t \in inboxTasks : markAsRead(t)
    \/ \E e \in DashUsers : ClickMarkAll(e)
    \/ \E t \in inboxTasks : MarkAllStep(t)

SpecInbox == InitInbox /\ [][NextInbox]_vars

\* ------------------------------------------------------- a day on leave
\* u1's leave for day 0 has been approved and its attendance record
\* stored; u1's dashboard mounts at 09:31 of that day
InitOnLeave ==
    /\ leave_requests = [rid \in {"r1"} |->
                           ApprovedRow(rid, "u1", 0, 0, "a1", 1)]
    /\ attendance = LeaveAttendanceRecords(UTCZone, leave_requests["r1"])
    /\ notifications = <<LeaveNotification("approve", leave_requests["r1"])>>
    /\ zone = UTCZone
    /\ requests = [a \in Admins |-> <<>>]
    /\ processingId = [a \in Admins |-> NoOne]
    /\ refreshDue = [a \in Admins |-> FALSE]
    /\ toast = [a \in Admins |-> "none"]
    /\ tasks = {}
    /\ clicks = 1
    /\ PagesIdle
    /\ clock = At(0, 9, 31, 0)
    /\ attendance_schedule = SeedSchedule
    /\ todayAttendance = [e \in Employees |-> NoRow]
    /\ todaySchedule = [e \in Employees |-> NoRow]
    /\ checkingIn = [e \in Employees |-> FALSE]
    /\ fetchAtt = [e \in Employees |-> IF e \in DashUsers THEN 1 ELSE 0]
    /\ fetchSched = [e \in Employees |-> 0]
    /\ dashToast = [e \in Employees |-> [title |-> "none"]]
    /\ dashTasks = {}
    /\ checkIns = [e \in Employees |-> 0]

SpecOnLeave == InitOnLeave /\ [][NextOut]_vars

\* --------------------------------------------------- manage-user function
\* the stored tables the function reads and writes
Tables == <<leave_requests, notifications, attendance, profiles, auth_users,
            user_roles, user_settings, gps_logs, task_rows>>

\* the state of the pages the function and the employees page leave alone
besideFn == <<zone, requests, processingId, refreshDue, toast, tasks, clicks,
              dashVars, schedVars, stats, aggTasks, skew, formVars, viewVars,
              aggSeen>>

pageState == <<selectedEmployee, deleteLoading, deleteToast>>

\* the Authorization header of a request: none, or the session token of a
\* user
Headers == {NoOne, "u1", "a1"}

\* the email a create request may carry (the new user is named after it)
NewUsers == {"u3"}

Body(action, user_id, email) ==
    [action |-> action, user_id |-> user_id, email |-> email]

\* the JSON bodies of the requests: email stands for email, password and
\* full_name, NoOne for a field left out
Bodies ==
    {Body("create", NoOne, e) : e \in NewUsers \cup {NoOne}}
    \cup {Body("delete", u, NoOne) : u \in {NoOne, "a1", "u1"}}
    \cup {Body("update", NoOne, NoOne)}

\* the requests sent from outside the application: every body with the
\* token of an admin; without a token or with the token of an employee,
\* where the body is never read, a create and a delete
Requests ==
    {r \in Headers \X Bodies :
        \/ r[1] = "a1"
        \/ r[2] \in {Body("create", NoOne, "u3"), Body("delete", "u1", NoOne)}}

\* the admins whose employees page is open
PageAdmins == {"a1"}

\* a request arrives; page is the admin whose page sent it, if any
NewCall(header, body, page) ==
    [id |-> Cardinality(fnCalls) + 1, authHeader |-> header, body |-> body,
     page |-> page, pc |-> "getUser", caller |-> NoOne, role |-> NoOne,
     status |-> 0, removed |-> FALSE]

\* the function goes on to its next await; changed: its last statement
\* wrote to the store
Proceed(c, pc, changed) ==
    fnCalls' = (fnCalls \ {c}) \cup
        {[c EXCEPT !.pc = pc, !.removed = c.removed \/ changed]}

\* return new Response(..., { status })
Respond(c, status) ==
    fnCalls' = (fnCalls \ {c}) \cup {[c EXCEPT !.pc = "done", !.status = status]}

\* a request sent to the function from outside the application
Invoke(header, body) ==
    /\ Cardinality(fnCalls) < MaxCalls
    /\ fnCalls' = fnCalls \cup {NewCall(header, body, NoOne)}
    /\ UNCHANGED <<Tables, pageState, besideFn>>

\* openDeleteDialog(employee) on a row of the employee list
openDeleteDialog(a, u) ==
    /\ selectedEmployee[a] = NoOne
    /\ ~deleteLoading[a]
    /\ selectedEmployee' = [selectedEmployee EXCEPT ![a] = u]
    /\ UNCHANGED <<Tables, fnCalls, deleteLoading, deleteToast, besideFn>>

\* handlePermanentDelete up to its await: the page invokes the function
\* with the admin's session token
handlePermanentDelete(a) ==
    /\ selectedEmployee[a] # NoOne
    /\ ~deleteLoading[a]
    /\ Cardinality(fnCalls) < MaxCalls
    /\ deleteLoading' = [deleteLoading EXCEPT ![a] = TRUE]
    /\ fnCalls' = fnCalls \cup
          {NewCall(a, Body("delete", selectedEmployee[a], NoOne), a)}
    /\ UNCHANGED <<Tables, selectedEmployee, deleteToast, besideFn>>

\* handlePermanentDelete after its await: the response has arrived
PermanentDeleteDone(c) ==
    /\ c.pc = "done"
    /\ c.page # NoOne
    /\ IF c.status = 200
       THEN /\ deleteToast' = [deleteToast EXCEPT
                                  ![c.page] = "User permanently deleted"]
            /\ selectedEmployee' = [selectedEmployee EXCEPT
                                       ![c.page] = NoOne]
       ELSE /\ deleteToast' = [deleteToast EXCEPT ![c.page] = "Error"]
            /\ UNCHANGED selectedEmployee
    /\ deleteLoading' = [deleteLoading EXCEPT ![c.page] = FALSE]
    /\ fnCalls' = (fnCalls \ {c}) \cup {[c EXCEPT !.pc = "received"]}
    /\ UNCHANGED <<Tables, besideFn>>

\* the header is checked and supabaseClient.auth.getUser() answers: the
\* user of the token, or an error
GetUser(c) ==
    /\ c.pc = "getUser"
    /\ \/ Respond(c, 401)
       \/ /\ c.authHeader \in auth_users
          /\ fnCalls' = (fnCalls \ {c}) \cup
                {[c EXCEPT !.pc = "role", !.caller = c.authHeader]}
    /\ UNCHANGED <<Tables, pageState, besideFn>>

\* from("user_roles").select("role").eq("user_id", id).single()
roleData(id) ==
    LET rows == {r \in user_roles : r.user_id = id}
    IN IF Cardinality(rows) = 1 THEN (CHOOSE r \in rows : TRUE).role
       ELSE NoOne

\* as IsAdmin, for any role stored
IsAdmin_AnyRole(role) == role # NoOne

\* roleData?.role === "admin"
IsAdmin(role) == role = "admin"

\* the body is parsed and validated: the first await of the action, or
\* "reject" for a response with status 400
Dispatch(c) ==
    CASE c.body.action = "create" ->
            IF c.body.email = NoOne THEN "reject" ELSE "createUser"
      [] c.body.action = "delete" ->
            IF c.body.user_id = NoOne THEN "reject"
            ELSE IF c.body.user_id = c.caller THEN "reject"
            ELSE "notifications"
      [] OTHER -> "reject"

\* the role of the caller answers; then the body is parsed and validated
CheckRole(c) ==
    /\ c.pc = "role"
    /\ LET d == [c EXCEPT !.role = roleData(c.caller)]
           e == IF ~IsAdmin(d.role)
                THEN [d EXCEPT !.pc = "done", !.status = 403]
                ELSE IF Dispatch(d) = "reject"
                THEN [d EXCEPT !.pc = "done", !.status = 400]
                ELSE [d EXCEPT !.pc = Dispatch(d)]
       IN fnCalls' = (fnCalls \ {c}) \cup {e}
    /\ UNCHANGED <<Tables, pageState, besideFn>>

\* the rows of a table other than those of user u
Without(rows, u) == SelectSeq(rows, LAMBDA r : r.user_id # u)

\* supabaseAdmin.auth.admin.createUser: refused for an email in use; the
\* trigger handle_new_user adds the profile, the role and the settings
CreateUser(c) ==
    /\ c.pc = "createUser"
    /\ IF c.body.email \in auth_users
       THEN /\ Respond(c, 400)
            /\ UNCHANGED Tables
       ELSE /\ auth_users' = auth_users \cup {c.body.email}
            /\ profiles' = Append(profiles, Profile(c.body.email, TRUE))
            /\ user_roles' = user_roles \cup
                  {[user_id |-> c.body.email, role |-> "employee"]}
            /\ user_settings' = user_settings \cup {c.body.email}
            /\ Proceed(c, "profile", FALSE)
            /\ UNCHANGED <<leave_requests, notifications, attendance,
                           gps_logs, task_rows>>
    /\ UNCHANGED <<pageState, besideFn>>

\* the update of full_name, department and title of the new profile
\* answers (its error is logged only)
UpdateProfile(c) ==
    /\ c.pc = "profile"
    /\ Respond(c, 200)
    /\ UNCHANGED <<Tables, pageState, besideFn>>

\* from("notifications").delete().eq("user_id", user_id)
DeleteNotifications(c) ==
    /\ c.pc = "notifications"
    /\ notifications' = Without(notifications, c.body.user_id)
    /\ Proceed(c, "gps_logs", notifications' # notifications)
    /\ UNCHANGED <<leave_requests, attendance, profiles, auth_users,
                   user_roles, user_settings, gps_logs, task_rows>>
    /\ UNCHANGED <<pageState, besideFn>>

\* from("gps_logs").delete().eq("user_id", user_id)
DeleteGpsLogs(c) ==
    /\ c.pc = "gps_logs"
    /\ gps_logs' = Without(gps_logs, c.body.user_id)
    /\ Proceed(c, "attendance", gps_logs' # gps_logs)
    /\ UNCHANGED <<leave_requests, notifications, attendance, profiles,
                   auth_users, user_roles, user_settings, task_rows>>
    /\ UNCHANGED <<pageState, besideFn>>

\* from("attendance").delete().eq("user_id", user_id)
DeleteAttendance(c) ==
    /\ c.pc = "attendance"
    /\ attendance' = Without(attendance, c.body.user_id)
    /\ Proceed(c, "leave_requests", attendance' # attendance)
    /\ UNCHANGED <<leave_requests, notifications, profiles, auth_users,
                   user_roles, user_settings, gps_logs, task_rows>>
    /\ UNCHANGED <<pageState, besideFn>>

\* the rows of leave_requests other than those of user u
RequestsWithout(u) ==
    [rid \in {r \in DOMAIN leave_requests : leave_requests[r].user_id # u}
        |-> leave_requests[rid]]

\* from("leave_requests").delete().eq("user_id", user_id)
DeleteLeaveRequests(c) ==
    /\ c.pc = "leave_requests"
    /\ leave_requests' = RequestsWithout(c.body.user_id)
    /\ Proceed(c, "tasks", DOMAIN leave_requests' # DOMAIN leave_requests)
    /\ UNCHANGED <<notifications, attendance, profiles, auth_users,
                   user_roles, user_settings, gps_logs, task_rows>>
    /\ UNCHANGED <<pageState, besideFn>>

\* update({ assigned_to: null }).eq("assigned_to", u) on tasks
Unassigned(rows, u) ==
    [i \in DOMAIN rows |->
        IF rows[i].assigned_to = u THEN [rows[i] EXCEPT !.assigned_to = NoOne]
        ELSE rows[i]]

\* from("tasks").update({ assigned_to: null }).eq("assigned_to", user_id)
UnassignTasks(c) ==
    /\ c.pc = "tasks"
    /\ task_rows' = Unassigned(task_rows, c.body.user_id)
    /\ Proceed(c, "user_settings", task_rows' # task_rows)
    /\ UNCHANGED <<leave_requests, notifications, attendance, profiles,
                   auth_users, user_roles, user_settings, gps_logs>>
    /\ UNCHANGED <<pageState, besideFn>>

\* from("user_settings").delete().eq("user_id", user_id)
DeleteUserSettings(c) ==
    /\ c.pc = "user_settings"
    /\ user_settings' = user_settings \ {c.body.user_id}
    /\ Proceed(c, "user_roles", user_settings' # user_settings)
    /\ UNCHANGED <<leave_requests, notifications, attendance, profiles,
                   auth_users, user_roles, gps_logs, task_rows>>
    /\ UNCHANGED <<pageState, besideFn>>

\* from("user_roles").delete().eq("user_id", user_id)
DeleteUserRoles(c) ==
    /\ c.pc = "user_roles"
    /\ user_roles' = {r \in user_roles : r.user_id # c.body.user_id}
    /\ Proceed(c, "profiles", user_roles' # user_roles)
    /\ UNCHANGED <<leave_requests, notifications, attendance, profiles,
                   auth_users, user_settings, gps_logs, task_rows>>
    /\ UNCHANGED <<pageState, besideFn>>

\* from("profiles").delete().eq("id", user_id)
DeleteProfiles(c) ==
    /\ c.pc = "profiles"
    /\ profiles' = SelectSeq(profiles, LAMBDA r : r.id # c.body.user_id)
    /\ Proceed(c, "deleteUser", profiles' # profiles)
    /\ UNCHANGED <<leave_requests, notifications, attendance, auth_users,
                   user_roles, user_settings, gps_logs, task_rows>>
    /\ UNCHANGED <<pageState, besideFn>>

\* tasks after a user is deleted: ON DELETE SET NULL on both references
TasksAfterDelete(u) ==
    [i \in DOMAIN task_rows |->
        [task_rows[i] EXCEPT
            !.assigned_to = IF @ = u THEN NoOne ELSE @,
            !.assigned_by = IF @ = u THEN NoOne ELSE @]]

\* supabaseAdmin.auth.admin.deleteUser(user_id) answers: an error (no such
\* user, or the auth service fails), or the user is deleted and the rows
\* that reference it go with it (ON DELETE CASCADE)
DeleteUser(c) ==
    /\ c.pc = "deleteUser"
    /\ \/ /\ Respond(c, 400)
          /\ UNCHANGED Tables
       \/ /\ c.body.user_id \in auth_users
          /\ auth_users' = auth_users \ {c.body.user_id}
          /\ notifications' = Without(notifications, c.body.user_id)
          /\ gps_logs' = Without(gps_logs, c.body.user_id)
          /\ attendance' = Without(attendance, c.body.user_id)
          /\ leave_requests' = RequestsWithout(c.body.user_id)
          /\ task_rows' = TasksAfterDelete(c.body.user_id)
          /\ user_settings' = user_settings \ {c.body.user_id}
          /\ user_roles' = {r \in user_roles : r.user_id # c.body.user_id}
          /\ profiles' = SelectSeq(profiles,
                                   LAMBDA r : r.id # c.body.user_id)
          /\ fnCalls' = (fnCalls \ {c}) \cup
                {[c EXCEPT !.pc = "done", !.status = 200,
                           !.removed = TRUE]}
    /\ UNCHANGED <<pageState, besideFn>>

\* the store when the employees page opens: u1 has a pending leave request,
\* a notification, a GPS log and a task; u1 and u2 have checked in
InitFn ==
    /\ leave_requests = [rid \in {"r1"} |-> PendingRow(rid, "u1", 0, 0)]
    /\ notifications =
          <<LeaveNotification("decline", PendingRow("r2", "u1", 1, 1))>>
    /\ attendance =
          <<[user_id |-> "u1", check_in |-> At(0, 9, 0, 0),
             check_out |-> NoTime, status |-> "present"],
            [user_id |-> "u2", check_in |-> At(0, 9, 0, 0),
             check_out |-> NoTime, status |-> "present"]>>
    /\ zone = UTCZone
    /\ requests = [a \in Admins |-> <<>>]
    /\ processingId = [a \in Admins |-> NoOne]
    /\ refreshDue = [a \in Admins |-> FALSE]
    /\ toast = [a \in Admins |-> "none"]
    /\ tasks = {}
    /\ clicks = 0
    /\ DashIdle
    /\ SchedIdle
    /\ NoSkew
    /\ FormIdle
    /\ ViewIdle
    /\ aggSeen = 0
    /\ profiles = <<Profile("a1", TRUE), Profile("a2", TRUE),
                    Profile("u1", TRUE), Profile("u2", TRUE)>>
    /\ stats = NoStats
    /\ aggTasks = {}
    /\ auth_users = Admins \cup Employees
    /\ user_roles = {RoleOf(u) : u \in Admins \cup Employees}
    /\ user_settings = Admins \cup Employees
    /\ gps_logs = <<[user_id |-> "u1", recorded_at |-> At(0, 9, 0, 0)]>>
    /\ task_rows = <<[id |-> 1, assigned_to |-> "u1", assigned_by |-> "a1"]>>
    /\ fnCalls = {}
    /\ selectedEmployee = [a \in Admins |-> NoOne]
    /\ deleteLoading = [a \in Admins |-> FALSE]
    /\ deleteToast = [a \in Admins |-> "none"]

NextFn ==
    \/ \E r \in Requests : Invoke(r[1], r[2])
    \/ \E a \in PageAdmins, u \in Admins \cup Employees :
          openDeleteDialog(a, u)
    \/ \E a \in PageAdmins : handlePermanentDelete(a)
    \/ \E c \in fnCalls : PermanentDeleteDone(c)
    \/ \E c \in fnCalls : GetUser(c)
    \/ \E c \in fnCalls : CheckRole(c)
    \/ \E c \in fnCalls : CreateUser(c)
    \/ \E c \in fnCalls : UpdateProfile(c)
    \/ \E c \in fnCalls : DeleteNotifications(c)
    \/ \E c \in fnCalls : DeleteGpsLogs(c)
    \/ \E c \in fnCalls : DeleteAttendance(c)
    \/ \E c \in fnCalls : DeleteLeaveRequests(c)
    \/ \E c \in fnCalls : UnassignTasks(c)
    \/ \E c \in fnCalls : DeleteUserSettings(c)
    \/ \E c \in fnCalls : DeleteUserRoles(c)
    \/ \E c \in fnCalls : DeleteProfiles(c)
    \/ \E c \in fnCalls : DeleteUser(c)

SpecFn == InitFn /\ [][NextFn]_vars

\* ================================================= leave reconciler claims

\* the step taken is a step of handler t: t leaves its place
StepOf(t) == t \notin tasks'
\* ... and t has ended
Ended(t) == \A u \in tasks' : u.id # t.id

\* the rows of attendance that are leave records of the requester of rid
LeaveRowsOf(rid) ==
    {i \in DOMAIN attendance :
        /\ attendance[i].user_id = leave_requests[rid].user_id
        /\ attendance[i].status = "leave"}

\* the number of days of the closed interval [start_date, end_date]
SpanDays(row) ==
    IF row.start_date <= row.end_date
    THEN row.end_date - row.start_date + 1 ELSE 0

\* C1: the persisted status of a leave request changes only from pending to
\* approved or declined, and a reviewed request (status, approved_by,
\* approved_at) never changes again, whatever sessions act on it.
C1_StatusTerminal ==
    [][\A rid \in DOMAIN leave_requests :
          /\ leave_requests[rid].status = "pending"
               => leave_requests'[rid].status
                     \in {"pending", "approved", "declined"}
          /\ leave_requests[rid].status # "pending"
               => leave_requests'[rid] = leave_requests[rid]]_vars

\* C2: approving an already approved request creates nothing more, so the
\* leave records created through one request never outnumber the days of
\* its span.
C2_NoDuplicateLeaveRows ==
    \A rid \in DOMAIN leave_requests :
        Cardinality(LeaveRowsOf(rid)) <= SpanDays(leave_requests[rid])

\* C3: an approve whose attendance insert is stored, for a request with
\* start_date <= end_date, adds exactly end_date - start_date + 1 rows: one
\* leave row of the requester on each day of [start_date, end_date].
C3_OneLeaveRowPerDay ==
    [][\A t \in tasks :
          (/\ t.kind = "approve" /\ t.pc = "attendance" /\ StepOf(t)
           /\ attendance' # attendance
           /\ t.request.start_date <= t.request.end_date)
          => /\ Len(attendance') = Len(attendance) + SpanDays(t.request)
             /\ SubSeq(attendance', 1, Len(attendance)) = attendance
             /\ \A d \in t.request.start_date .. t.request.end_date :
                  Cardinality(
                    {i \in (Len(attendance) + 1) .. Len(attendance') :
                        /\ DayOf(attendance'[i].check_in) = d
                        /\ attendance'[i].status = "leave"
                        /\ attendance'[i].user_id = t.request.user_id}) = 1
      ]_vars

\* C4: no step of a decline, succeeding or failing, changes the attendance
\* records; a decline writes only status, approved_by and approved_at of
\* its request and at most one notification.
C4_DeclineFrame ==
    [][/\ \A t \in tasks :
            (t.kind = "decline" /\ StepOf(t))
            => /\ attendance' = attendance
               /\ \A rid \in DOMAIN leave_requests :
                    /\ rid # t.request.id
                         => leave_requests'[rid] = leave_requests[rid]
                    /\ [leave_requests'[rid] EXCEPT
                           !.status = "x", !.approved_by = "x",
                           !.approved_at = 0]
                       = [leave_requests[rid] EXCEPT
                           !.status = "x", !.approved_by = "x",
                           !.approved_at = 0]
               /\ \/ notifications' = notifications
                  \/ /\ Len(notifications') = Len(notifications) + 1
                     /\ SubSeq(notifications', 1, Len(notifications))
                          = notifications
       /\ \A u \in tasks' :
            (u.kind = "decline" /\ u.id \notin {t.id : t \in tasks})
            => UNCHANGED <<leave_requests, attendance, notifications>>
      ]_vars

\* a decline went through and there is still no attendance record
C4_Witness ==
    /\ \E rid \in DOMAIN leave_requests :
          leave_requests[rid].status = "declined"
    /\ \E i \in DOMAIN notifications :
          notifications[i].title = "Leave Request Declined"
    /\ attendance = <<>>

\* C5: when the status update of an approve fails, the handler ends there:
\* it writes no attendance record and no notification and shows the error;
\* a handler that is past the update has had its request reviewed.
C5_WritesOnlyAfterUpdate ==
    [][/\ \A t \in tasks :
            (/\ t.kind = "approve" /\ t.pc = "update" /\ StepOf(t)
             /\ leave_requests' = leave_requests)
            => /\ Ended(t)
               /\ attendance' = attendance
               /\ notifications' = notifications
               /\ toast'[t.admin] = "Failed to approve leave request"
       /\ \A u \in tasks' :
            (u.kind = "approve" /\ u.pc \in {"attendance", "notify"})
            => leave_requests'[u.request.id].status # "pending"
      ]_vars

\* an approve has failed at the status update: nothing was written
C5_Witness ==
    /\ clicks > 0 /\ tasks = {}
    /\ \E a \in Admins : toast[a] = "Failed to approve leave request"
    /\ \A rid \in DOMAIN leave_requests :
          leave_requests[rid].status = "pending"
    /\ attendance = <<>> /\ notifications = <<>>

\* C6: when the insert of the leave attendance records fails, the approve
\* ends with the error shown to the admin (and does not insert again).
C6_AttendanceErrorSurfaced ==
    [][\A t \in tasks :
          (/\ t.kind = "approve" /\ t.pc = "attendance" /\ StepOf(t)
           /\ attendance' = attendance)
          => /\ Ended(t)
             /\ toast'[t.admin] = "Failed to approve leave request"
      ]_vars

\* C7: when the notification insert of an approve fails, the request stays
\* as it is (approved) and the attendance records stay.
C7_NoRollback ==
    [][\A t \in tasks :
          (/\ t.kind = "approve" /\ t.pc = "notify" /\ StepOf(t)
           /\ notifications' = notifications)
          => /\ leave_requests' = leave_requests
             /\ attendance' = attendance
      ]_vars

\* an approve has ended without its notification: the request is approved
\* and its leave records are there
C7_Witness ==
    /\ tasks = {} /\ notifications = <<>>
    /\ \E a \in Admins : toast[a] = "Leave approved"
    /\ \E rid \in DOMAIN leave_requests :
          /\ leave_requests[rid].status = "approved"
          /\ LeaveRowsOf(rid) # {}

\* C8: notifications change only in the last step of an approve or decline
\* that ends with its success toast, and then by exactly one new row: for
\* the request's user_id, unread, related_type leave, related_id the
\* request id.
C8_OneNotificationToRequester ==
    [][/\ notifications' # notifications
          => \E t \in tasks :
               /\ t.pc = "notify" /\ StepOf(t) /\ Ended(t)
               /\ toast'[t.admin] = (IF t.kind = "approve"
                                     THEN "Leave approved"
                                     ELSE "Leave declined")
               /\ Len(notifications') = Len(notifications) + 1
               /\ SubSeq(notifications', 1, Len(notifications))
                    = notifications
               /\ LET n == notifications'[Len(notifications')] IN
                    /\ n.user_id = leave_requests[t.request.id].user_id
                    /\ n.is_read = FALSE
                    /\ n.related_type = "leave"
                    /\ n.related_id = t.request.id
       /\ \A t \in tasks :
            (StepOf(t) /\ Ended(t)
             /\ toast'[t.admin] \in {"Leave approved", "Leave declined"})
            => t.pc = "notify"
      ]_vars

\* an approve and a decline have each stored their notification
C8_Witness ==
    /\ \E i \in DOMAIN notifications :
          notifications[i].title = "Leave Request Approved"
    /\ \E i \in DOMAIN notifications :
          notifications[i].title = "Leave Request Declined"

\* =============================================== employee dashboard claims

\* hours * 60 + minutes of an instant, and of a time text HH:MM:SS
MinuteOfDay(t) ==
    ((t % SecondsPerDay) \div SecondsPerHour) * 60
        + (t % SecondsPerHour) \div 60
MinuteOfText(str) ==
    (DigitVal(str[1]) * 10 + DigitVal(str[2])) * 60
        + DigitVal(str[4]) * 10 + DigitVal(str[5])

\* C9: the status chosen for a check-in at instant t against schedule row
\* s is late exactly when hour(t) * 60 + minute(t) exceeds hours * 60 +
\* minutes of s.check_in_end, present otherwise, whatever is_working_day,
\* check_in_start and the seconds are.
C9_LateIffAfterCheckInEnd ==
    \A t \in dashTasks :
        (t.kind = "checkin" /\ t.pc = "insert" /\ t.sched # NoRow)
        => t.status = (IF MinuteOfDay(t.now)
                            > MinuteOfText(t.sched.check_in_end)
                       THEN "late" ELSE "present")

\* a check-in 59 seconds into the minute of check_in_end, on a day that is
\* not a working day, classified present
C9_Witness ==
    \E t \in dashTasks :
        /\ t.pc = "insert" /\ t.sched # NoRow
        /\ t.now = At(0, 9, 30, 59)
        /\ t.sched.check_in_end = FormatTime(TimeOfDay(9, 30, 0))
        /\ ~t.sched.is_working_day
        /\ t.status = "present"

\* C10: with no schedule row for today the dashboard still lets the
\* employee check in, and the record that check-in creates is present.
C10_FailOpenPresent ==
    /\ [](\A e \in DashUsers :
            (/\ todaySchedule[e] = NoRow /\ todayAttendance[e] = NoRow
             /\ ~checkingIn[e] /\ checkIns[e] < MaxCheckIns)
            => ENABLED ClickCheckIn(e))
    /\ [][\A t \in dashTasks :
            (/\ t.kind = "checkin" /\ t.pc = "insert" /\ t.sched = NoRow
             /\ t \notin dashTasks' /\ attendance' # attendance)
            => /\ Len(attendance') = Len(attendance) + 1
               /\ SubSeq(attendance', 1, Len(attendance)) = attendance
               /\ attendance'[Len(attendance')].user_id = t.user
               /\ attendance'[Len(attendance')].status = "present"
        ]_vars

\* a check-in classified at 10:29, after every check_in_end a schedule row
\* has here, was stored as present: it was made without a schedule row
C10_Witness ==
    \E e \in DashUsers, i \in DOMAIN attendance :
        /\ attendance[i].user_id = e
        /\ attendance[i].status = "present"
        /\ attendance[i].check_in = At(0, 10, 29, 0)
        /\ dashToast[e] = [title |-> "Checked in!", at |-> At(0, 10, 29, 0)]

\* ========================================================= schedule claims

\* the rows stored for a weekday
RowsOfDay(d) ==
    {i \in DOMAIN attendance_schedule :
        attendance_schedule[i].day_of_week = d}

\* C11: in every reachable state attendance_schedule holds exactly one row
\* for each day_of_week 0..6; the schedule a dashboard resolves is the row
\* of the weekday (0 = Sunday) of its date; and no step, a Save Schedule
\* failing part-way included, creates, deletes or re-keys a row.
C11_OneRowPerWeekday ==
    /\ [](/\ Len(attendance_schedule) = 7
          /\ \A d \in 0..6 : Cardinality(RowsOfDay(d)) = 1)
    /\ [][/\ Len(attendance_schedule') = Len(attendance_schedule)
          /\ \A i \in DOMAIN attendance_schedule :
                /\ attendance_schedule'[i].id = attendance_schedule[i].id
                /\ attendance_schedule'[i].day_of_week
                      = attendance_schedule[i].day_of_week
          /\ \A e \in DashUsers :
                (todaySchedule'[e] # todaySchedule[e]
                   /\ todaySchedule'[e] # NoRow)
                => \E i \in RowsOfDay(GetDay(DashZone, clock)) :
                      todaySchedule'[e] = ScheduleDay(attendance_schedule[i])
       ]_vars

\* a save has failed after Monday's row was stored, and a dashboard has
\* resolved Monday's row as saved
C11_Witness ==
    /\ schedToast = "Failed to save schedule"
    /\ attendance_schedule[2].check_in_end = TimeOfDay(10, 0, 0)
    /\ todaySchedule["u1"] # NoRow
    /\ todaySchedule["u1"].day_of_week = 1
    /\ todaySchedule["u1"].check_in_end = FormatTime(TimeOfDay(10, 0, 0))

\* ======================================================== aggregator claims

\* the records of the day of the clock, and of its Monday-start week, with
\* one of the given statuses
Statuses == {"present", "late", "absent", "leave"}
MondayOf(day) == day - ((day + EpochWeekday + 6) % 7)
TodayRowsOf(sts) ==
    {i \in DOMAIN attendance :
        /\ DayOf(attendance[i].check_in) = DayOf(clock)
        /\ attendance[i].status \in sts}
WeekRowsOf(sts) ==
    {i \in DOMAIN attendance :
        /\ MondayOf(DayOf(attendance[i].check_in)) = MondayOf(DayOf(clock))
        /\ attendance[i].status \in sts}
ActiveEmployees == Cardinality({n \in DOMAIN profiles : profiles[n].is_active})

\* C12: the daily summary shows as present, late and on leave the numbers
\* of today's records with those statuses, and as absent the active
\* employee count minus the number of all of today's records, floored at
\* zero: absent is never negative.
C12_DailySummary ==
    [][\A t \in aggTasks :
          (t.pc = "recent" /\ t \notin aggTasks')
          => /\ stats'.absentToday >= 0
             /\ (t.employeeCount # Null /\ ~t.todayAttendance.error)
                => /\ stats'.presentToday
                        = Cardinality(TodayRowsOf({"present"}))
                   /\ stats'.lateToday = Cardinality(TodayRowsOf({"late"}))
                   /\ stats'.onLeaveToday
                        = Cardinality(TodayRowsOf({"leave"}))
                   /\ stats'.absentToday
                        = (IF ActiveEmployees
                                > Cardinality(TodayRowsOf(Statuses))
                           THEN ActiveEmployees
                                   - Cardinality(TodayRowsOf(Statuses))
                           ELSE 0)
      ]_vars

\* more records today than active employees: absent is shown as zero
C12_Witness ==
    /\ aggTasks = {}
    /\ stats.totalEmployees = 1 /\ ActiveEmployees = 1
    /\ stats.presentToday = 2 /\ stats.lateToday = 1
    /\ stats.onLeaveToday = 1 /\ stats.absentToday = 0

\* n / d rounded to the nearest integer, halves upwards
RoundHalfUp(n, d) == (2 * n + d) \div (2 * d)

\* C13: the weekly rate shown is round(100 * P / (E * 5)), P the number of
\* records of the Monday-start week that are present or late (leave and
\* absent records do not count), E the active employee count; it is 0 when
\* E is 0.
C13_WeeklyRate ==
    [][\A t \in aggTasks :
          (/\ t.pc = "recent" /\ t \notin aggTasks'
           /\ t.employeeCount # Null /\ ~t.weekAttendance.error)
          => stats'.attendanceRate
                = (IF ActiveEmployees = 0 THEN 0
                   ELSE RoundHalfUp(
                          100 * Cardinality(WeekRowsOf({"present", "late"})),
                          ActiveEmployees * 5))
      ]_vars

\* ================================================ check-in / check-out claims

\* the records an employee's check-ins created on the day of the clock
CheckInRowsToday(e) ==
    {i \in DOMAIN attendance :
        /\ attendance[i].user_id = e
        /\ attendance[i].status \in {"present", "late"}
        /\ DayOf(attendance[i].check_in) = DayOf(clock)}

\* C14: every record created by a check-in that has a check_out has
\* check_out >= check_in, so calculateDuration gives it non-negative hours
\* and minutes.
C14_CheckOutAfterCheckIn ==
    \A i \in DOMAIN attendance :
        (attendance[i].status \in {"present", "late"}
           /\ attendance[i].check_out # NoTime)
        => /\ attendance[i].check_out >= attendance[i].check_in
           /\ calculateDuration(attendance[i].check_in,
                                attendance[i].check_out).hours >= 0
           /\ calculateDuration(attendance[i].check_in,
                                attendance[i].check_out).minutes >= 0

\* C15: an employee's check-in clicks create at most one check-in record
\* per day: Check In can be clicked only while no record of the employee
\* exists for today, also while the refresh after a check-in is in flight
\* and when several records exist already.
C15_OneCheckInPerDay ==
    [](\A e \in DashUsers :
          /\ Cardinality(CheckInRowsToday(e)) <= 1
          /\ ENABLED ClickCheckIn(e) => TodayRecords(e) = <<>>)

\* C20: a check-out changes nothing but check_out of the one record the
\* card showed as today's when Check Out was clicked; status, check_in and
\* user_id of that record and all other records stay, and no step ever
\* changes the status of an existing record.
C20_CheckOutFrame ==
    [][/\ \A t \in dashTasks' \ dashTasks :
            t.kind = "checkout" => t.record = todayAttendance[t.user].id
       /\ \A t \in dashTasks :
            (t.kind = "checkout" /\ t \notin dashTasks')
            => /\ Len(attendance') = Len(attendance)
               /\ \A i \in DOMAIN attendance :
                    /\ i # t.record => attendance'[i] = attendance[i]
                    /\ [attendance'[i] EXCEPT !.check_out = NoTime]
                         = [attendance[i] EXCEPT !.check_out = NoTime]
       /\ \A i \in DOMAIN attendance :
            i \in DOMAIN attendance'
               /\ attendance'[i].status = attendance[i].status
      ]_vars

\* a late record was checked out while a second record of the same day
\* stayed as it was
C20_Witness ==
    \E i, j \in DOMAIN attendance :
        /\ i # j
        /\ attendance[i].user_id = attendance[j].user_id
        /\ attendance[i].status = "late"
        /\ attendance[i].check_out # NoTime
        /\ attendance[j].check_out = NoTime
        /\ dashToast[attendance[i].user_id].title = "Checked out!"

\* C16: the status a check-in persists is the classification of its
\* check-in time against the schedule row stored for that weekday at the
\* moment of the check-in: a schedule change saved before the check-in
\* counts, also when the dashboard was loaded before the change.
C16_FreshSchedule ==
    [][\A t \in dashTasks :
          /\ (t.kind = "checkin" /\ t.pc = "geo" /\ t \notin dashTasks'
                /\ t.sched # NoRow)
             => \A u \in dashTasks' \ dashTasks :
                   u.status = determineStatus(
                                 DashZone, u.now,
                                 Single(TodayScheduleRows(t.user)))
          /\ (t.kind = "checkin" /\ t.pc = "insert" /\ t \notin dashTasks'
                /\ attendance' # attendance)
             => attendance'[Len(attendance')].status = t.status
      ]_vars

\* ===================================================== leave records claims

\* C17: every attendance record with status leave lies on a day covered by
\* a leave request of the same user whose persisted status is approved.
C17_LeaveRowsCovered ==
    \A i \in DOMAIN attendance :
        attendance[i].status = "leave"
        => \E rid \in DOMAIN leave_requests :
              /\ leave_requests[rid].user_id = attendance[i].user_id
              /\ leave_requests[rid].status = "approved"
              /\ leave_requests[rid].start_date
                    <= DayOf(attendance[i].check_in)
              /\ DayOf(attendance[i].check_in)
                    <= leave_requests[rid].end_date

\* C18: within one admin session, while an approve or decline of a request
\* is in flight, no second approve or decline of that request can be
\* started: its two buttons stay disabled, whatever is done on other
\* requests meanwhile.
C18_ButtonsDisabledInFlight ==
    [](\A t \in tasks : ~ButtonsEnabled(t.admin, t.request.id))

\* C19: every persisted leave request has start_date <= end_date:
\* submitting the leave form never stores an end before the start,
\* whatever the order the fields were filled in.
C19_StartNotAfterEnd ==
    \A rid \in DOMAIN leave_requests :
        leave_requests[rid].start_date <= leave_requests[rid].end_date

\* ================================================== schedule frame claims

\* the status the stored schedule row of a record's weekday gives its
\* check_in now
StatusNow(rec) ==
    LET rows == {i \in DOMAIN attendance_schedule :
                    attendance_schedule[i].day_of_week
                        = GetDay(DashZone, rec.check_in)}
    IN determineStatus(DashZone, rec.check_in,
                       ScheduleDay(attendance_schedule[CHOOSE i \in rows : TRUE]))

\* C21: a Save Schedule changes no attendance record: every step of a save
\* (the click, each day's update, its failure) leaves the attendance table
\* as it was, also when a stored check_in classifies differently under the
\* schedule being saved.
C21_SaveKeepsAttendance ==
    [][(\/ attendance_schedule' # attendance_schedule
        \/ saving' # saving
        \/ saveTasks' # saveTasks
        \/ schedToast' # schedToast)
       => attendance' = attendance]_vars

\* a save has gone through, and a record stored as late would be present
\* under the schedule now stored
C21_Witness ==
    /\ schedToast = "Schedule saved"
    /\ ~saving
    /\ \E i \in DOMAIN attendance :
          /\ attendance[i].status = "late"
          /\ StatusNow(attendance[i]) = "present"

\* ================================================ attendance status claims

\* the rows a step has added to attendance
NewRows == {i \in DOMAIN attendance' : i > Len(attendance)}

\* C22: no operation stores an attendance record with status absent: a
\* record a check-in creates is present or late, a record with status
\* leave is created only by the approval of a leave request of its user,
\* and no step changes the status of a stored record.
C22_NoAbsentStored ==
    /\ [](\A i \in DOMAIN attendance :
             attendance[i].status \in {"present", "late", "leave"})
    /\ [][/\ \A i \in DOMAIN attendance :
                /\ i \in DOMAIN attendance'
                /\ attendance'[i].status = attendance[i].status
          /\ \A i \in NewRows :
                IF attendance'[i].status = "leave"
                THEN \E t \in tasks \ tasks' :
                        /\ t.kind = "approve" /\ t.pc = "attendance"
                        /\ t.request.user_id = attendance'[i].user_id
                ELSE /\ attendance'[i].status \in {"present", "late"}
                     /\ \E t \in dashTasks \ dashTasks' :
                           /\ t.kind = "checkin"
                           /\ t.user = attendance'[i].user_id
       ]_vars

\* an approval has stored a leave record for u1 and a check-in of u1 a
\* late one
C22_Witness ==
    /\ \E i \in DOMAIN attendance :
          attendance[i].user_id = "u1" /\ attendance[i].status = "leave"
    /\ \E i \in DOMAIN attendance :
          attendance[i].user_id = "u1" /\ attendance[i].status = "late"

\* ============================================== concurrent check-in claims

\* the stored records of an employee, in the order they were stored
RowsOf(e) == SelectSeq(attendance, LAMBDA r : r.user_id = e)

\* all that an employee's dashboard holds and has stored
Local(e) ==
    <<todayAttendance[e], todaySchedule[e], checkingIn[e], fetchAtt[e],
      fetchSched[e], dashToast[e], checkIns[e],
      {t \in dashTasks : t.user = e}, RowsOf(e)>>

\* C23: check-ins of two employees are independent: every step acts for
\* one employee and leaves the other's records and dashboard as they
\* were, so that steps of the two commute and every interleaving stores
\* the same records; a record's status is the one determineStatus gives
\* its own check-in with the employee's own todaySchedule; and what a
\* dashboard fetches as today's record is a record of its own employee.
C23_IndependentCheckIns ==
    /\ [](\A e \in Employees :
             todayAttendance[e] # NoRow
             => /\ todayAttendance[e].id \in DOMAIN attendance
                /\ attendance[todayAttendance[e].id].user_id = e)
    /\ [][/\ \A e1 \in Employees, e2 \in Employees :
                (e1 # e2 /\ Local(e1)' # Local(e1))
                => Local(e2)' = Local(e2)
          /\ \A i \in NewRows :
                \E t \in dashTasks \ dashTasks' :
                   /\ t.user = attendance'[i].user_id
                   /\ t.sched = todaySchedule[t.user]
                      \/ t.sched = NoRow
                      \/ t.sched \in {ScheduleDay(attendance_schedule[k]) :
                                        k \in DOMAIN attendance_schedule}
                   /\ attendance'[i].status
                         = determineStatus(DashZone, t.now, t.sched)
                   /\ attendance'[i].check_in = clock
                   /\ attendance'[i].check_out = NoTime
       ]_vars

\* both employees have checked in at 09:31: u1 with the schedule loaded is
\* late, u2 without it is present, and each dashboard shows its own record
C23_Witness ==
    /\ Len(attendance) = 2
    /\ \E i \in DOMAIN attendance :
          attendance[i].user_id = "u1" /\ attendance[i].status = "late"
    /\ \E i \in DOMAIN attendance :
          attendance[i].user_id = "u2" /\ attendance[i].status = "present"
    /\ \A e \in Employees :
          todayAttendance[e] # NoRow /\ dashTasks = {}

\* ================================================== classification claims

\* a text whose part before the first colon, or the part after it, does
\* not start with a digit
Unparsable(str) ==
    LET parts == Split(str, ":")
    IN ~(/\ Len(parts) >= 2
         /\ Len(parts[1]) > 0 /\ IsDigit(parts[1][1])
         /\ Len(parts[2]) > 0 /\ IsDigit(parts[2][1]))

SameOrRead(a, b) ==
    \/ b = a
    \/ ~a.is_read /\ b = [a EXCEPT !.is_read = TRUE]

\* the mark-as-read handlers that take a step
Marking == (inboxTasks \ inboxTasks')

\* C25: is_read only ever changes from false to true: in every step each
\* stored notification stays as it is or goes from unread to read with
\* every other field kept; a step of a mark handler of the view writes
\* at most the one row whose id it is marking, never a row of another
\* user, and changes the listed notifications only by setting is_read of
\* unread entries (markAsRead: of the entries with that id alone).
C25_ReadOnlyFlips ==
    [][/\ \A i \in DOMAIN notifications :
             /\ i \in DOMAIN notifications'
             /\ SameOrRead(notifications[i], notifications'[i])
       /\ \A t \in Marking :
             /\ \A i \in DOMAIN notifications :
                   i # t.ids[t.i] => notifications'[i] = notifications[i]
             /\ notifications[t.ids[t.i]].user_id = t.user
             /\ Len(notifications') = Len(notifications)
             /\ Len(inbox'[t.user]) = Len(inbox[t.user])
             /\ \A k \in DOMAIN inbox[t.user] :
                   /\ SameOrRead(inbox[t.user][k], inbox'[t.user][k])
                   /\ (t.kind = "click" /\ inbox[t.user][k].id # t.ids[1])
                      => inbox'[t.user][k] = inbox[t.user][k]
             /\ \A e \in Employees \ {t.user} : inbox'[e] = inbox[e]
      ]_vars

\* u1 has marked notification 3 read by a click, with the store written:
\* it is read and expanded, while u2's notification and the one that came
\* in by the subscription are unread
C25_Witness ==
    /\ notifications[3].is_read
    /\ expandedId["u1"] = 3
    /\ ~notifications[2].is_read
    /\ Len(notifications) = 4 /\ ~notifications[4].is_read
    /\ \E k \in DOMAIN inbox["u1"] :
          inbox["u1"][k].id = 4 /\ ~inbox["u1"][k].is_read
    /\ \E k \in DOMAIN inbox["u1"] :
          inbox["u1"][k].id = 3 /\ inbox["u1"][k].is_read
    /\ inboxTasks = {}

\* ===================================================== leave day claims

\* C26: an attendance record with status leave never acquires a check_out,
\* and the card offers Check Out only for a record the employee's own
\* check-in created.
C26_NoCheckOutOnLeave ==
    /\ \A i \in DOMAIN attendance :
          attendance[i].status = "leave" => attendance[i].check_out = NoTime
    /\ \A e \in DashUsers :
          CheckOutShown(e) => todayAttendance[e].status # "leave"

\* ================================================ dashboard refresh claims

\* the summary a fetchDashboardData running now, every query answering,
\* would show
SummaryNow ==
    [totalEmployees |-> ActiveEmployees,
     presentToday |-> Cardinality(TodayRowsOf({"present"})),
     lateToday |-> Cardinality(TodayRowsOf({"late"})),
     absentToday |-> absentToday(ActiveEmployees,
                                 Cardinality(TodayRowsOf(Statuses))),
     onLeaveToday |-> Cardinality(TodayRowsOf({"leave"})),
     attendanceRate |->
         attendanceRate(ActiveEmployees,
             [error |-> FALSE,
              data |-> StatusBetween(StartOfWeek(zone, clock),
                                     EndOfWeek(zone, clock))])]

\* C27: once every refresh the change feed has triggered has completed
\* and no change is waiting to trigger one, the summary shown equals the
\* summary of the data stored, whatever the order in which overlapping
\* refreshes completed.
C27_SettledSummary ==
    (aggTasks = {} /\ aggSeen = Len(attendance)) => stats = SummaryNow

\* C28: the weekly attendance rate the admin dashboard shows lies between 0
\* and 100 inclusive, whatever the attendance records and the number of
\* active employees
C28_RateWithinPercent == stats.attendanceRate \in 0..100

\* ===================================================== manage-user claims

\* the step taken is a step of call c
CallStep(c) == c \notin fnCalls'

\* call c after the step
After(c) == CHOOSE d \in fnCalls' : d.id = c.id

\* a delete request naming the user its own token belongs to
SelfDelete(c) == c.body.action = "delete" /\ c.body.user_id = c.authHeader

\* C29: a call of manage-user writes to the store (creates or deletes a
\* user or any row) only if its token identified a user and the role read
\* for that user is admin; a delete request that names the caller's own id
\* never writes to the store and is not answered with success.
C29_AdminOnly ==
    [][\A c \in fnCalls : CallStep(c) =>
          /\ Tables' # Tables =>
                /\ c.caller # NoOne
                /\ c.caller = c.authHeader
                /\ c.role = "admin"
                /\ ~SelfDelete(c)
          /\ SelfDelete(c) => After(c).status \in {0, 400, 401, 403}]_vars

\* an employee's request was refused with 403, an admin's request to
\* delete their own account with 400, and the store is as it was
C29_Witness ==
    /\ \E c \in fnCalls :
          c.caller \in Employees /\ c.role = "employee" /\ c.status = 403
    /\ \E c \in fnCalls :
          SelfDelete(c) /\ c.role = "admin" /\ c.status = 400
    /\ auth_users = Admins \cup Employees
    /\ Len(attendance) = 2 /\ Len(profiles) = 4

\* C30: a delete request answered with an error has removed none of the
\* target's rows and unassigned no task.
C30_DeleteAllOrNothing ==
    \A c \in fnCalls :
        (c.body.action = "delete" /\ c.status >= 400) => ~c.removed

====
